---------------------------- MODULE Spec2Model ----------------------------
(***************************************************************************)
(* Model of the answer-to-summary pipeline of the 40-question year review  *)
(* (src/services/openaiService.ts).                                        *)
(*                                                                         *)
(* Strings are sequences of UTF-16 code units (integers), so that          *)
(* String.length is Len and every character class of the source's regular  *)
(* expressions is a range test.  A code unit >= DocBase stands for the     *)
(* whole serialisation of one JSON document of the table JsonDocs (a run   *)
(* of text without back-ticks and without surrounding whitespace); a JSON  *)
(* string literal is written out character by character.                   *)
(***************************************************************************)
EXTENDS Integers, Sequences, FiniteSets, TLC

VARIABLES
    fn,       \* the exported function (or helper) that is called
    pc,       \* position of the call: "idle", "await" (suspended at the remote call), "done"
    input,    \* the arguments of the call
    remote,   \* what the remote API did for this call
    outcome,  \* the promise returned to the caller: pending, resolved (value) or rejected
    env,      \* API_KEY and BASE_URL as resolved at module initialisation
    client,   \* the module-level client cache: ai, cachedApiKey, cachedBaseURL
    ui        \* the React state of App and QuestionFlow, pending timers and calls

vars == <<fn, pc, input, remote, outcome, env, client, ui>>

-----------------------------------------------------------------------------
(* Characters *)

NL == 10
CR == 13
DOT == 46
BACKTICK == 96

\* ECMAScript WhiteSpace and LineTerminator: what \s matches and trim() strips.
WhiteSpace ==
    {9, 10, 11, 12, 13, 32, 160, 5760, 8232, 8233, 8239, 8287, 12288, 65279}
        \cup (8192..8202)

IsWs(c) == c \in WhiteSpace
Digit == 48..57
IsDigit(c) == c \in Digit
CodeUnit == 0..65535
NewLine == {NL}
NotNewLine == CodeUnit \ {NL}

\* "Part"
PartWord == <<80, 97, 114, 116>>

-----------------------------------------------------------------------------
(* String primitives.  Offsets are 0-based as in JavaScript: the character *)
(* at offset p of t is t[p + 1].                                           *)

Min(S) == CHOOSE x \in S : \A y \in S : x <= y
Max(S) == CHOOSE x \in S : \A y \in S : x >= y

\* t.slice(a, b) for 0 <= a, b
Slice(t, a, b) ==
    LET e == IF b > Len(t) THEN Len(t) ELSE b
    IN  IF a >= e THEN << >> ELSE SubSeq(t, a + 1, e)

\* does pat occur in t at offset p
MatchesAt(t, pat, p) ==
    /\ p + Len(pat) <= Len(t)
    /\ \A k \in 1..Len(pat) : t[p + k] = pat[k]

\* String.prototype.includes
Includes(t, pat) == \E p \in 0..(Len(t) - Len(pat)) : MatchesAt(t, pat, p)

\* String.prototype.startsWith
StartsWith(t, pat) == MatchesAt(t, pat, 0)

\* length of the longest run of characters of a class that starts at offset p
RunLen(t, p, class) ==
    LET stops == {k \in 0..(Len(t) - p) : k = Len(t) - p \/ t[p + k + 1] \notin class}
    IN  Min(stops)

\* String.prototype.trim, given the length of the leading white space
TrimFrom(t, lead) ==
    Slice(t, lead, Max({e \in lead..Len(t) : e = lead \/ ~IsWs(t[e])}))

\* String.prototype.trim
Trim(t) == TrimFrom(t, RunLen(t, 0, WhiteSpace))

\* str.replace(/pat/g, rep) for a literal pat: leftmost, non-overlapping
RECURSIVE ReplaceAllFrom(_, _, _, _)
ReplaceAllFrom(t, pat, rep, p) ==
    IF p >= Len(t) THEN << >>
    ELSE IF MatchesAt(t, pat, p) THEN rep \o ReplaceAllFrom(t, pat, rep, p + Len(pat))
    ELSE <<t[p + 1]>> \o ReplaceAllFrom(t, pat, rep, p + 1)

ReplaceAll(t, pat, rep) == ReplaceAllFrom(t, pat, rep, 0)

-----------------------------------------------------------------------------
(* Answers: a mapping from question id to answer text, { [key: number]:    *)
(* string }.  The empty mapping is the empty function << >>.               *)

EmptyAnswers == << >>

\* answers[id] = text
Put(answers, id, text) ==
    [k \in (DOMAIN answers) \cup {id} |-> IF k = id THEN text ELSE answers[k]]

\* Object.keys(answers).length
KeyCount(answers) == Cardinality(DOMAIN answers)

\* const buildFallbackAnswers = (text) => ...
buildFallbackAnswers(text) ==
    LET clean == Trim(text)
    IN  IF clean = << >> THEN EmptyAnswers ELSE Put(EmptyAnswers, 1, clean)

-----------------------------------------------------------------------------
(* parsePlainTextAnswers: the regular expression                           *)
(*   /(?:^|\n)(\d{1,2})\.\s*[^\n]*\n+([\s\S]*?)                            *)
(*        (?=(?:\n\d{1,2}\.\s|\nPart\s*\d+\.)|$)/g                         *)
(* run by a backtracking matcher in priority order (greedy quantifiers     *)
(* longest first, the lazy one shortest first), and the exec loop.         *)

NoMatch == [ok |-> FALSE]

\* a lookahead without the Part alternative: (?=\n\d{1,2}\.\s|$)
LookaheadAt_NumbersOnly(t, e) ==
    \/ e = Len(t)
    \/ /\ e < Len(t)
       /\ t[e + 1] = NL
       /\ \E d \in 1..2 :
             /\ e + d + 3 <= Len(t)
             /\ \A k \in 1..d : IsDigit(t[e + 1 + k])
             /\ t[e + d + 2] = DOT
             /\ IsWs(t[e + d + 3])

\* \d+\. at offset a, given the length m of the run of digits there
DigitsThenDot(t, a, m) == m >= 1 /\ a + m < Len(t) /\ t[a + m + 1] = DOT

\* the offset after \s* from offset a
SkipWs(t, a) == a + RunLen(t, a, WhiteSpace)

\* Part\s*\d+\. at offset p
PartAt(t, p) ==
    /\ MatchesAt(t, PartWord, p)
    /\ DigitsThenDot(t, SkipWs(t, p + Len(PartWord)),
                     RunLen(t, SkipWs(t, p + Len(PartWord)), Digit))

\* the lookahead (?=(?:\n\d{1,2}\.\s|\nPart\s*\d+\.)|$) at offset e
LookaheadAt(t, e) ==
    \/ e = Len(t)
    \/ /\ e < Len(t)
       /\ t[e + 1] = NL
       /\ \/ \E d \in 1..2 :
               /\ e + d + 3 <= Len(t)
               /\ \A k \in 1..d : IsDigit(t[e + 1 + k])
               /\ t[e + d + 2] = DOT
               /\ IsWs(t[e + d + 3])
          \/ PartAt(t, e + 1)

\* the offset after [^\n]* from offset a
SkipLine(t, a) == a + RunLen(t, a, NotNewLine)

\* the offset after \n+ from offset a
SkipNewLines(t, a) == a + RunLen(t, a, NewLine)

\* \s*[^\n]*\n+ from offset q, given the lengths ok that \s* can take with a
\* \n left on the line: the longest is tried first
HeaderEndOf(t, q, ok) ==
    IF ok = {} THEN -1 ELSE SkipNewLines(t, SkipLine(t, q + Max(ok)))

\* \s*[^\n]*\n+ from offset q (just after the dot): the offset where group 2
\* starts, or -1.  \s* gives back characters only when the rest cannot match;
\* for a given \s* the line up to its first \n is all [^\n]* can take before
\* \n+, and \n+ keeps every \n because the lazy group after it always matches.
HeaderEnd(t, q) ==
    HeaderEndOf(t, q, {w \in 0..RunLen(t, q, WhiteSpace) : SkipLine(t, q + w) < Len(t)})

\* \d{1,2} followed by \. at offset p: the number of digits taken, or 0
MarkerLen(t, p) ==
    IF /\ p + 3 <= Len(t)
       /\ IsDigit(t[p + 1]) /\ IsDigit(t[p + 2]) /\ t[p + 3] = DOT
    THEN 2
    ELSE IF p + 2 <= Len(t) /\ IsDigit(t[p + 1]) /\ t[p + 2] = DOT
    THEN 1
    ELSE 0

\* the match array: group 1 is t[p, p + d), group 2 is t[b, e)
Groups(t, p, d, b, e) ==
    [ok |-> TRUE, g1 |-> Slice(t, p, p + d), g2 |-> Slice(t, b, e), end |-> e]

\* ([\s\S]*?) from offset b: the lazy group stops at the first offset where
\* the lookahead holds
AfterHeader(t, p, d, b) ==
    IF b < 0 THEN NoMatch
    ELSE Groups(t, p, d, b, Min({x \in b..Len(t) : LookaheadAt(t, x)}))

\* \.\s*[^\n]*\n+ ... after the d digits at offset p
AfterMarker(t, p, d) ==
    IF d = 0 THEN NoMatch ELSE AfterHeader(t, p, d, HeaderEnd(t, p + d + 1))

\* (\d{1,2})\. ... from offset p, the offset after (?:^|\n)
AttemptAt(t, p) == AfterMarker(t, p, MarkerLen(t, p))

\* the first alternative that matches
FirstOf(viaStart, viaNL) == IF viaStart.ok THEN viaStart ELSE viaNL

\* a match that starts at offset s: the alternative ^ is tried before \n
MatchAt(t, s) ==
    FirstOf(IF s = 0 THEN AttemptAt(t, s) ELSE NoMatch,
            IF s < Len(t) /\ t[s + 1] = NL THEN AttemptAt(t, s + 1) ELSE NoMatch)

\* the match at the least of the offsets starts where one exists
ExecAmong(t, starts) ==
    IF starts = {} THEN NoMatch ELSE MatchAt(t, Min(starts))

\* regex.exec(cleaned) with regex.lastIndex = from
Exec(t, from) == ExecAmong(t, {s \in from..Len(t) : MatchAt(t, s).ok})

\* Number(match[1]) for one or two decimal digits
ToNumber(ds) ==
    IF Len(ds) = 2 THEN (ds[1] - 48) * 10 + (ds[2] - 48) ELSE ds[1] - 48

\* if (id < 1 || id > 40) continue; if (answer) answers[id] = answer
Store(answers, id, answer) ==
    IF id < 1 \/ id > 40 THEN answers
    ELSE IF answer # << >> THEN Put(answers, id, answer)
    ELSE answers

\* the while loop, from lastIndex = from; ParseStep is its body for the match m
RECURSIVE ParseLoop(_, _, _), ParseStep(_, _, _)
ParseLoop(t, from, answers) == ParseStep(t, Exec(t, from), answers)

ParseStep(t, m, answers) ==
    IF ~m.ok THEN answers
    ELSE ParseLoop(t, m.end, Store(answers, ToNumber(m.g1), Trim(m.g2)))

parsePlainTextAnswers(text) ==
    IF text = << >> THEN EmptyAnswers
    ELSE ParseLoop(ReplaceAll(text, <<CR, NL>>, <<NL>>), 0, EmptyAnswers)

-----------------------------------------------------------------------------
(* JSON values, as JSON.parse returns them.                                *)

JNull == [t |-> "null"]
JUndefined == [t |-> "undefined"]
JBool(b) == [t |-> "bool", b |-> b]
JNum(n) == [t |-> "num", n |-> n]
JStr(s) == [t |-> "str", s |-> s]
JArr(a) == [t |-> "arr", a |-> a]
JObj(f) == [t |-> "obj", f |-> f]

\* ToBoolean
Truthy(v) ==
    CASE v.t = "null" -> FALSE
      [] v.t = "undefined" -> FALSE
      [] v.t = "bool" -> v.b
      [] v.t = "num" -> v.n # 0
      [] v.t = "str" -> v.s # << >>
      [] OTHER -> TRUE

\* v[k] for a value v that is neither null nor undefined: JSON data has only
\* own properties, primitives and arrays have none of the names read here
Prop(v, k) == IF v.t = "obj" /\ k \in DOMAIN v.f THEN v.f[k] ELSE JUndefined

\* the decimal digits of a natural number
RECURSIVE Digits(_)
Digits(n) == IF n < 10 THEN <<48 + n>> ELSE Digits(n \div 10) \o <<48 + (n % 10)>>

\* String(v); the elements of an array are joined by ",", null and undefined
\* elements as ""
RECURSIVE JsString(_)
JsString(v) ==
    CASE v.t = "str" -> v.s
      [] v.t = "num" -> IF v.n < 0 THEN <<45>> \o Digits(0 - v.n) ELSE Digits(v.n)
      [] v.t = "bool" -> IF v.b THEN <<116, 114, 117, 101>> ELSE <<102, 97, 108, 115, 101>>
      [] v.t = "null" -> <<110, 117, 108, 108>>
      [] v.t = "undefined" -> <<117, 110, 100, 101, 102, 105, 110, 101, 100>>
      [] v.t = "arr" ->
            IF v.a = << >> THEN << >>
            ELSE LET first == IF v.a[1].t \in {"null", "undefined"} THEN << >>
                              ELSE JsString(v.a[1])
                 IN  IF Len(v.a) = 1 THEN first
                     ELSE first \o <<44>> \o JsString(JArr(Tail(v.a)))
      [] OTHER -> <<91, 111, 98, 106, 101, 99, 116, 32, 79, 98, 106, 101, 99, 116, 93>>

\* the value of a string of decimal digits
RECURSIVE DigitsValue(_)
DigitsValue(ds) ==
    IF ds = << >> THEN 0
    ELSE DigitsValue(SubSeq(ds, 1, Len(ds) - 1)) * 10 + (ds[Len(ds)] - 48)

\* the property key a value names when used as obj[v]: property keys are
\* strings, so the number 1 and the string "1" name the same key, which is
\* kept here as the number
PropKey(v) ==
    LET s == JsString(v)
        canonical == /\ s # << >>
                     /\ \A i \in DOMAIN s : IsDigit(s[i])
                     /\ Len(s) > 1 => s[1] # 48
    IN  IF canonical THEN DigitsValue(s) ELSE s

\* first code unit that is not a character: DocBase + k is the text of JsonDocs[k]
DocBase == 65536

\* short texts used inside the documents: "ab", "cd", "5"
TxtAB == <<97, 98>>
TxtCD == <<99, 100>>

Item(id, answer) == JObj([id |-> id, answer |-> answer])

\* one card of a summary document
DocCard(style) ==
    JObj([title |-> JStr(TxtAB), content |-> JStr(TxtCD),
          keyword |-> JStr(TxtAB), style |-> JStr(style)])

StyleTicket == <<116, 105, 99, 107, 101, 116>>
StylePaper == <<112, 97, 112, 101, 114>>
StylePolaroid == <<112, 111, 108, 97, 114, 111, 105, 100>>
StyleNote == <<110, 111, 116, 101>>
Styles == {StyleTicket, StylePaper, StylePolaroid, StyleNote}

DocSummary(cards) ==
    JObj([cards |-> JArr(cards), visualTags |-> JArr(<<JStr(TxtAB)>>),
          poem |-> JStr(TxtAB), analysis |-> JStr(TxtCD),
          keyword |-> JStr(TxtAB), animal |-> JStr(TxtCD)])

FourCards == <<DocCard(StyleTicket), DocCard(StylePaper), DocCard(StyleNote), DocCard(StylePolaroid)>>

\* the JSON documents a remote response can carry in this model
JsonDocs == <<
    \* 1..9: answers to the extraction request
    JObj([list |-> JArr(<<Item(JNum(1), JStr(TxtAB)), Item(JNum(2), JStr(TxtCD))>>)]),
    JObj([list |-> JArr(<< >>)]),
    JObj([list |-> JArr(<<Item(JNum(0), JStr(TxtAB)), Item(JNum(3), JStr(<< >>)),
                          JObj([id |-> JNum(4)]), JObj([answer |-> JStr(TxtAB)])>>)]),
    JObj([list |-> JArr(<<Item(JNum(1), JStr(TxtAB)), Item(JNum(1), JStr(TxtCD)),
                          Item(JNum(99), JNum(5))>>)]),
    JObj([list |-> JArr(<<Item(JNum(2), JStr(TxtAB)), JNull>>)]),
    JObj([list |-> JStr(TxtAB)]),
    JObj([other |-> JNum(1)]),
    JNull,
    JNum(7),
    \* 10..16: answers to the summary request
    DocSummary(FourCards),
    DocSummary(SubSeq(FourCards, 1, 3)),
    DocSummary(<<DocCard(StyleTicket), DocCard(StylePaper), DocCard(StyleNote), DocCard(TxtAB)>>),
    DocSummary(<<DocCard(StyleTicket), DocCard(StylePaper), DocCard(StyleNote),
                 JObj([title |-> JStr(TxtAB), style |-> JStr(StyleNote)])>>),
    JObj([cards |-> JArr(FourCards), visualTags |-> JArr(<<JStr(TxtAB)>>)]),
    JObj([cards |-> JStr(TxtAB), visualTags |-> JArr(<< >>), poem |-> JNum(1),
          analysis |-> JStr(TxtCD), keyword |-> JStr(TxtAB), animal |-> JStr(TxtCD)]),
    JArr(<< >>)
>>

Doc(k) == <<DocBase + k>>

\* the characters a JSON string holds unescaped: no quote, no backslash, no
\* control character
JsonStringChars == CodeUnit \ ({34, 92} \cup (0..31))

\* JSON.parse: a text is valid JSON when it is exactly the text of one document
\* of the table, or a string literal without escapes
JSONparse(t) ==
    IF Len(t) = 1 /\ t[1] > DocBase /\ t[1] - DocBase \in DOMAIN JsonDocs
    THEN [ok |-> TRUE, value |-> JsonDocs[t[1] - DocBase]]
    ELSE IF /\ Len(t) >= 2
            /\ t[1] = 34
            /\ t[Len(t)] = 34
            /\ \A i \in 2..(Len(t) - 1) : t[i] \in JsonStringChars
    THEN [ok |-> TRUE, value |-> JStr(SubSeq(t, 2, Len(t) - 1))]
    ELSE [ok |-> FALSE]

-----------------------------------------------------------------------------
(* Helpers of the service *)

FenceJson == <<BACKTICK, BACKTICK, BACKTICK, 106, 115, 111, 110>>
Fence == <<BACKTICK, BACKTICK, BACKTICK>>

\* const cleanJsonString = (str) => ...
cleanJsonString(str) ==
    IF str = << >> THEN << >>
    ELSE Trim(ReplaceAll(ReplaceAll(str, FenceJson, << >>), Fence, << >>))

\* message content: null, a string, or an array of parts {type, text?}
CNull == [t |-> "null"]
CStr(s) == [t |-> "str", s |-> s]
CParts(ps) == [t |-> "parts", ps |-> ps]

RECURSIVE JoinNL(_)
JoinNL(ts) ==
    IF ts = << >> THEN << >>
    ELSE IF Len(ts) = 1 THEN ts[1]
    ELSE ts[1] \o <<NL>> \o JoinNL(Tail(ts))

\* const getTextFromContent = (content) => ... applied to (content || "")
getTextFromContent(content) ==
    CASE content.t = "null" -> << >>
      [] content.t = "str" -> content.s
      [] OTHER ->
            Trim(JoinNL([i \in DOMAIN content.ps |->
                    IF content.ps[i].type = "text" THEN content.ps[i].text ELSE << >>]))

\* base64 data is named by what it decodes to: ok is whether atob accepts it
B64(text) == [ok |-> TRUE, text |-> text]
B64Invalid == [ok |-> FALSE, text |-> << >>]

\* const decodeBase64ToText = (base64) => ...   (in the browser Buffer is
\* not defined, so the inner fallback yields "")
decodeBase64ToText(base64) == IF base64.ok THEN base64.text ELSE << >>

-----------------------------------------------------------------------------
(* The client handle *)

\* ASCII lower case, for the i flag
Lower(t) == [i \in DOMAIN t |-> IF t[i] \in 65..90 THEN t[i] + 32 ELSE t[i]]

\* "/chat/completions"
ChatCompletions == <<47, 99, 104, 97, 116, 47, 99, 111, 109, 112, 108, 101, 116, 105, 111, 110, 115>>

\* url.replace(/\/chat\/completions\/?$/i, "/")
sanitizeBaseURL(url) ==
    LET l == Lower(url)
        n == Len(url)
        k == Len(ChatCompletions)
    IN  IF n >= k /\ MatchesAt(l, ChatCompletions, n - k)
        THEN Slice(url, 0, n - k) \o <<47>>
        ELSE IF n >= k + 1 /\ l[n] = 47 /\ MatchesAt(l, ChatCompletions, n - k - 1)
        THEN Slice(url, 0, n - k - 1) \o <<47>>
        ELSE url

\* let ai = null; let cachedApiKey; let cachedBaseURL;  (ai = 0 is null, ai = n
\* is the n-th handle constructed)
NoClient == [ai |-> 0, made |-> 0, cachedApiKey |-> << >>, cachedBaseURL |-> << >>]

\* no page is open: the functions are called directly
NoUI == [appState |-> "none"]

\* a getClient that caches BASE_URL as configured, not as handed to the client
getClient_RawCache(e, c) ==
    IF e.apiKey = << >> THEN [threw |-> TRUE, client |-> c]
    ELSE LET baseURL == sanitizeBaseURL(e.baseURL)
         IN  IF c.ai = 0 \/ e.apiKey # c.cachedApiKey \/ baseURL # c.cachedBaseURL
             THEN [threw |-> FALSE,
                   client |-> [ai |-> c.made + 1, made |-> c.made + 1,
                               cachedApiKey |-> e.apiKey, cachedBaseURL |-> e.baseURL]]
             ELSE [threw |-> FALSE, client |-> c]

\* const getClient = () => ...: whether it throws, and the cache afterwards
getClient(e, c) ==
    IF e.apiKey = << >> THEN [threw |-> TRUE, client |-> c]
    ELSE LET baseURL == sanitizeBaseURL(e.baseURL)
         IN  IF c.ai = 0 \/ e.apiKey # c.cachedApiKey \/ baseURL # c.cachedBaseURL
             THEN [threw |-> FALSE,
                   client |-> [ai |-> c.made + 1, made |-> c.made + 1,
                               cachedApiKey |-> e.apiKey, cachedBaseURL |-> baseURL]]
             ELSE [threw |-> FALSE, client |-> c]

-----------------------------------------------------------------------------
(* extractAnswersFromData *)

Pending == [kind |-> "pending"]
Resolved(v) == [kind |-> "resolved", value |-> v]
Rejected(e) == [kind |-> "rejected", error |-> e]

\* "image/" and "text/"
ImagePrefix == <<105, 109, 97, 103, 101, 47>>
TextPrefix == <<116, 101, 120, 116, 47>>

\* const isImage = mimeType?.startsWith("image/")
isImage(mimeType) == StartsWith(mimeType, ImagePrefix)

\* const textPayload = !isImage ? decodeBase64ToText(base64Data) : ""
textPayloadOf(in) ==
    IF isImage(in.mimeType) THEN << >> ELSE decodeBase64ToText(in.base64Data)

\* if (!isImage && textPayload && mimeType?.startsWith("text/"))
takesTextPath(in) ==
    /\ ~isImage(in.mimeType)
    /\ textPayloadOf(in) # << >>
    /\ StartsWith(in.mimeType, TextPrefix)

\* a plain-text branch without the total-capture fallback
extractLocal_ParseOnly(textPayload) == Resolved(parsePlainTextAnswers(textPayload))

\* the plain-text branch
extractLocal(textPayload) ==
    LET parsed == parsePlainTextAnswers(textPayload)
    IN  IF KeyCount(parsed) > 0 THEN Resolved(parsed)
        ELSE Resolved(buildFallbackAnswers(textPayload))

\* a catch block that rethrows whatever it caught
extractCatch_Rethrow(textPayload, error) == Rejected(error)

\* catch (error) { ... }
extractCatch(textPayload, error) ==
    LET fallback == buildFallbackAnswers(textPayload)
    IN  IF KeyCount(fallback) > 0 THEN Resolved(fallback) ELSE Rejected(error)

\* answerList.forEach(item => ...) from item i on: a null item throws
RECURSIVE convertList(_, _, _)
convertList(items, i, formattedAnswers) ==
    IF i > Len(items) THEN [threw |-> FALSE, answers |-> formattedAnswers]
    ELSE LET item == items[i]
         IN  IF item.t \in {"null", "undefined"}
             THEN [threw |-> TRUE, answers |-> formattedAnswers]
             ELSE IF Truthy(Prop(item, "id")) /\ Truthy(Prop(item, "answer"))
             THEN convertList(items, i + 1,
                      Put(formattedAnswers, PropKey(Prop(item, "id")),
                          JsString(Prop(item, "answer"))))
             ELSE convertList(items, i + 1, formattedAnswers)

\* const answerList = parsed.list || []; ...; return formattedAnswers
extractFromParsed(textPayload, value) ==
    IF value.t = "null" THEN extractCatch(textPayload, "TypeError")
    ELSE LET l == Prop(value, "list")
             answerList == IF Truthy(l) THEN l ELSE JArr(<< >>)
         IN  IF answerList.t # "arr"
             THEN extractCatch(textPayload, "TypeError")
             ELSE LET r == convertList(answerList.a, 1, EmptyAnswers)
                  IN  IF r.threw
                      THEN extractCatch(textPayload, "TypeError")
                      ELSE Resolved(r.answers)

\* a try block without the inner try around JSON.parse: a SyntaxError reaches
\* the outer catch
extractOnResponse_NoInnerCatch(textPayload, content) ==
    LET jsonText == cleanJsonString(getTextFromContent(content))
    IN  IF jsonText = << >> THEN extractCatch(textPayload, "No response text")
        ELSE LET parsed == JSONparse(jsonText)
             IN  IF ~parsed.ok THEN extractCatch(textPayload, "SyntaxError")
                 ELSE extractFromParsed(textPayload, parsed.value)

\* the rest of the try block once the remote call has returned `content`
extractOnResponse(textPayload, content) ==
    LET jsonText == cleanJsonString(getTextFromContent(content))
    IN  IF jsonText = << >> THEN extractCatch(textPayload, "No response text")
        ELSE LET parsed == JSONparse(jsonText)
             IN  IF ~parsed.ok
                 THEN Resolved(buildFallbackAnswers(
                          IF textPayload # << >> THEN textPayload ELSE jsonText))
                 ELSE extractFromParsed(textPayload, parsed.value)

-----------------------------------------------------------------------------
(* Inputs and remote behaviours of the extraction model *)

\* "text/plain", "image/png", "application/pdf" and a missing type
MimeTextPlain == <<116, 101, 120, 116, 47, 112, 108, 97, 105, 110>>
MimeImagePng == <<105, 109, 97, 103, 101, 47, 112, 110, 103>>
MimePdf == <<97, 112, 112, 108, 105, 99, 97, 116, 105, 111, 110, 47, 112, 100, 102>>
MimeTypes == {MimeTextPlain, MimeImagePng, MimePdf, << >>}

\* decoded documents: "", " \n", "hello", "1. q\n\nab\n\n2. q\n\ncd",
\* "41. q\n\nab\n", "1. q\n \n"
TxtBlank == <<32, 10>>
TxtHello == <<104, 101, 108, 108, 111>>
TxtNumbered == <<49, 46, 32, 113, 10, 10, 97, 98, 10, 10, 50, 46, 32, 113, 10, 10, 99, 100>>
TxtOutOfRange == <<52, 49, 46, 32, 113, 10, 10, 97, 98, 10>>
TxtBlankBody == <<49, 46, 32, 113, 10, 32, 10>>
ExtractTexts == {<< >>, TxtBlank, TxtHello, TxtNumbered, TxtOutOfRange, TxtBlankBody}

ExtractInputs ==
    [base64Data : {B64Invalid} \cup {B64(t) : t \in ExtractTexts}, mimeType : MimeTypes]

\* "k1" and the default BASE_URL "https://open.bigmodel.cn/api/paas/v4/"
KeyK1 == <<107, 49>>
DefaultBaseURL ==
    <<104, 116, 116, 112, 115, 58, 47, 47, 111, 112, 101, 110, 46, 98, 105, 103,
      109, 111, 100, 101, 108, 46, 99, 110, 47, 97, 112, 105, 47, 112, 97, 97,
      115, 47, 118, 52, 47>>
Envs == [apiKey : {<< >>, KeyK1}, baseURL : {DefaultBaseURL}]

\* "oops": text that is no JSON
TxtOops == <<111, 111, 112, 115>>

\* message contents the extraction request can be answered with
ExtractContents ==
    {CNull, CStr(TxtBlank), CStr(FenceJson \o Fence), CStr(TxtOops),
     CStr(Doc(1) \o Doc(1)),
     CStr(FenceJson \o <<NL>> \o Doc(1) \o <<NL>> \o Fence),
     CParts(<<[type |-> "text", text |-> Doc(1)]>>)}
    \cup {CStr(Doc(k)) : k \in 1..9}

NoRemote == [kind |-> "none"]

-----------------------------------------------------------------------------
(* SpecExtract: one call of extractAnswersFromData(base64Data, mimeType)   *)

InitExtract ==
    /\ fn = "extractAnswersFromData"
    /\ pc = "idle"
    /\ input \in ExtractInputs
    /\ env \in Envs
    /\ remote = NoRemote
    /\ outcome = Pending
    /\ client = NoClient
    /\ ui = NoUI

\* the call up to its first await: the plain-text branch returns at once, a
\* missing API key is caught by the catch block, otherwise the request is sent
ExtractCall ==
    /\ fn = "extractAnswersFromData"
    /\ pc = "idle"
    /\ LET textPayload == textPayloadOf(input)
           got == getClient(env, client)
       IN  IF takesTextPath(input)
           THEN /\ outcome' = extractLocal(textPayload)
                /\ pc' = "done"
                /\ UNCHANGED <<remote, client>>
           ELSE IF got.threw
           THEN /\ outcome' = extractCatch(textPayload, "Missing OpenAI API key")
                /\ pc' = "done"
                /\ remote' = [kind |-> "nokey"]
                /\ UNCHANGED client
           ELSE /\ pc' = "await"
                /\ client' = got.client
                /\ UNCHANGED <<remote, outcome>>
    /\ UNCHANGED <<fn, input, env, ui>>

\* chat.completions.create rejects (network failure, non-2xx status)
ExtractRemoteReject ==
    /\ fn = "extractAnswersFromData"
    /\ pc = "await"
    /\ remote' = [kind |-> "error"]
    /\ outcome' = extractCatch(textPayloadOf(input), "transport")
    /\ pc' = "done"
    /\ UNCHANGED <<fn, input, env, client, ui>>

\* chat.completions.create resolves with a message content
ExtractRemoteRespond ==
    /\ fn = "extractAnswersFromData"
    /\ pc = "await"
    /\ \E content \in ExtractContents :
          /\ remote' = [kind |-> "ok", content |-> content]
          /\ outcome' = extractOnResponse(textPayloadOf(input), content)
    /\ pc' = "done"
    /\ UNCHANGED <<fn, input, env, client, ui>>

NextExtract == ExtractCall \/ ExtractRemoteReject \/ ExtractRemoteRespond

SpecExtract == InitExtract /\ [][NextExtract]_vars

\* the call has returned to its caller
ExtractDone == fn = "extractAnswersFromData" /\ pc = "done"

\* two outcomes are the same for the caller: both fail, or both return the same answers
SameOutcome(a, b) ==
    /\ a.kind = b.kind
    /\ a.kind = "resolved" => a.value = b.value

\* the cleaned text of the response the remote gave in this state
ResponseText == cleanJsonString(getTextFromContent(remote.content))

-----------------------------------------------------------------------------
(* Claims about extractAnswersFromData *)

\* C6: extractAnswersFromData either returns a non-empty AnswerStore or fails; it
\* never resolves with an empty AnswerStore.
C6_NeverResolvesEmpty ==
    (ExtractDone /\ outcome.kind = "resolved") => KeyCount(outcome.value) > 0

\* C8: when the numbered-entry parse of plain-text input recovers zero entries,
\* extraction returns exactly {1: the entire decoded text, trimmed}.
C8_TotalCapture ==
    (/\ ExtractDone
     /\ takesTextPath(input)
     /\ DOMAIN parsePlainTextAnswers(textPayloadOf(input)) = {})
        => outcome = Resolved(1 :> Trim(textPayloadOf(input)))

\* C9: on the remote path, when the remote call fails, the call returns
\* {1: locally decoded text, trimmed} if that text is not blank and propagates the
\* failure otherwise; for image input a remote failure always propagates.
C9_RemoteFailure ==
    (ExtractDone /\ remote.kind = "error") =>
        LET text == IF StartsWith(input.mimeType, ImagePrefix) THEN << >>
                    ELSE IF input.base64Data.ok THEN input.base64Data.text ELSE << >>
        IN  IF \E i \in DOMAIN text : ~IsWs(text[i])
            THEN outcome = Resolved(1 :> Trim(text))
            ELSE outcome = Rejected("transport")

C9_Witness ==
    /\ ExtractDone
    /\ remote.kind = "error"
    /\ outcome.kind = "resolved"
    /\ input.mimeType = MimePdf

\* C10 as stated: a remote response that is empty or is not valid JSON gives the
\* caller the same outcome as a transport failure on the same input.
C10_SameAsTransportFailure ==
    (/\ ExtractDone
     /\ remote.kind = "ok"
     /\ (ResponseText = << >> \/ ~JSONparse(ResponseText).ok))
        => SameOutcome(outcome, extractCatch(textPayloadOf(input), "transport"))

\* C10 amended: an empty response gives the outcome of a transport failure; a
\* response that is not valid JSON gives it only when the decoded text is not
\* blank, and otherwise resolves where the transport failure rejects: with
\* {1: the cleaned response text} when there is no decoded text, with the empty
\* AnswerStore when the decoded text is only whitespace.
C10_Amended ==
    (ExtractDone /\ remote.kind = "ok") =>
        LET text == textPayloadOf(input)
            transport == extractCatch(text, "transport")
        IN  /\ ResponseText = << >> => SameOutcome(outcome, transport)
            /\ (ResponseText # << >> /\ ~JSONparse(ResponseText).ok) =>
                  IF Trim(text) # << >> THEN SameOutcome(outcome, transport)
                  ELSE /\ transport.kind = "rejected"
                       /\ outcome = IF text = << >> THEN Resolved(1 :> ResponseText)
                                    ELSE Resolved(EmptyAnswers)

C10_Witness ==
    /\ ExtractDone
    /\ remote.kind = "ok"
    /\ ResponseText # << >>
    /\ ~JSONparse(ResponseText).ok
    /\ isImage(input.mimeType)
    /\ outcome.kind = "resolved"

-----------------------------------------------------------------------------
(* SpecParse: one call of parsePlainTextAnswers(text)                      *)

\* the texts are built from at most MaxChunks pieces
MaxChunks == 4

\* "1. q\n", "12. q\n\n", "99. q\n", "ab\r\n", "\n", "Part 1.\n", " c"
ParseChunks ==
    {<<49, 46, 32, 113, 10>>, <<49, 50, 46, 32, 113, 10, 10>>,
     <<57, 57, 46, 32, 113, 10>>, <<97, 98, 13, 10>>, <<10>>,
     <<80, 97, 114, 116, 32, 49, 46, 10>>, <<32, 99>>}

RECURSIVE ChunkTexts(_)
ChunkTexts(n) ==
    IF n = 0 THEN {<< >>}
    ELSE LET shorter == ChunkTexts(n - 1)
         IN  shorter \cup {t \o c : t \in shorter, c \in ParseChunks}

\* "1. Q1\n\nAnswer one\n\n2. Q2\n\nAnswer two"
TxtTwoAnswers ==
    <<49, 46, 32, 81, 49, 10, 10, 65, 110, 115, 119, 101, 114, 32, 111, 110, 101,
      10, 10, 50, 46, 32, 81, 50, 10, 10, 65, 110, 115, 119, 101, 114, 32, 116,
      119, 111>>

ParseInputs == [text : ChunkTexts(MaxChunks) \cup {TxtTwoAnswers}]

InitParse ==
    /\ fn = "parsePlainTextAnswers"
    /\ pc = "idle"
    /\ input \in ParseInputs
    /\ env = [apiKey |-> << >>, baseURL |-> DefaultBaseURL]
    /\ remote = NoRemote
    /\ outcome = Pending
    /\ client = NoClient
    /\ ui = NoUI

\* the synchronous call: its return value is recorded as the resolved outcome
ParseCall ==
    /\ fn = "parsePlainTextAnswers"
    /\ pc = "idle"
    /\ outcome' = Resolved(parsePlainTextAnswers(input.text))
    /\ pc' = "done"
    /\ UNCHANGED <<fn, input, remote, env, client, ui>>

NextParse == ParseCall

SpecParse == InitParse /\ [][NextParse]_vars

ParseDone == fn = "parsePlainTextAnswers" /\ pc = "done"

-----------------------------------------------------------------------------
(* Claims about parsePlainTextAnswers.  The numbered format is described   *)
(* line by line, independently of the regular expression.                  *)

\* the text the parse works on: CRLF line ends read as LF
Normalized(text) == ReplaceAll(text, <<CR, NL>>, <<NL>>)

\* offsets at which a line of t starts
LineStarts(t) == {0} \cup {p \in 1..Len(t) : t[p] = NL}

\* offset of the line end (its \n, or the end of the text) of the line at p
LineEnd(t, p) == p + RunLen(t, p, NotNewLine)

\* number of digits of a marker "N." (one or two digits, then a dot) at p, or 0
MarkerDigits(t, p) ==
    IF p + 3 <= Len(t) /\ IsDigit(t[p + 1]) /\ IsDigit(t[p + 2]) /\ t[p + 3] = DOT
    THEN 2
    ELSE IF p + 2 <= Len(t) /\ IsDigit(t[p + 1]) /\ t[p + 2] = DOT THEN 1
    ELSE 0

\* the N of the marker at p
MarkerNum(t, p) ==
    IF MarkerDigits(t, p) = 2 THEN (t[p + 1] - 48) * 10 + (t[p + 2] - 48)
    ELSE t[p + 1] - 48

\* the line at p is a marker line "N. question": marker, whitespace, and a
\* question text that is not blank, all on that line
MarkerLine(t, p) ==
    LET d == MarkerDigits(t, p)
        q == p + d + 1
        e == LineEnd(t, p)
    IN  /\ d > 0
        /\ q < e
        /\ IsWs(t[q + 1])
        /\ \E k \in (q + 1)..e : ~IsWs(t[k])

\* a part header "Part <digits>." starts at p
PartHeader(t, p) ==
    /\ MatchesAt(t, PartWord, p)
    /\ LET a == p + Len(PartWord)
           w == RunLen(t, a, WhiteSpace)
           m == RunLen(t, a + w, Digit)
       IN  m >= 1 /\ a + w + m < Len(t) /\ t[a + w + m + 1] = DOT

\* the numbered format: a line that starts with a marker is a marker line, and
\* the first non-empty line after a marker line is neither a marker line nor a
\* part header (every question has its answer slot)
WellFormed(t) ==
    /\ \A p \in LineStarts(t) : MarkerDigits(t, p) > 0 => MarkerLine(t, p)
    /\ \A p \in LineStarts(t) :
          MarkerLine(t, p) =>
              LET b == LineEnd(t, p) + RunLen(t, LineEnd(t, p), NewLine)
              IN  ~(MarkerDigits(t, b) > 0 \/ PartHeader(t, b))

\* an answer ends before the \n at offset e: a marker line with any one- or
\* two-digit number follows, or a part header
AnswerEndsAt(t, e) ==
    /\ e < Len(t)
    /\ t[e + 1] = NL
    /\ MarkerLine(t, e + 1) \/ PartHeader(t, e + 1)

\* an answer ends before the \n at offset e only if a marker line with a
\* number in 1..40 follows
AnswerEndsAtInRange(t, e) ==
    /\ e < Len(t)
    /\ t[e + 1] = NL
    /\ MarkerLine(t, e + 1)
    /\ MarkerNum(t, e + 1) \in 1..40

\* the text after the marker line at p up to the first end, trimmed; an end is
\* AnswerEndsAtInRange when inRangeOnly, AnswerEndsAt otherwise
AnswerOf(t, p, inRangeOnly) ==
    LET le == LineEnd(t, p)
        e == Min({x \in le..Len(t) :
                    \/ x = Len(t)
                    \/ IF inRangeOnly THEN AnswerEndsAtInRange(t, x)
                                      ELSE AnswerEndsAt(t, x)})
    IN  Trim(Slice(t, le, e))

\* the AnswerStore of a text in the numbered format: every marker line with N in
\* 1..40 and a non-blank answer, a later line for the same N replacing an earlier
NumberedAnswers(t, inRangeOnly) ==
    LET entries == {p \in LineStarts(t) :
                        /\ MarkerLine(t, p)
                        /\ MarkerNum(t, p) \in 1..40
                        /\ AnswerOf(t, p, inRangeOnly) # << >>}
    IN  [n \in {MarkerNum(t, p) : p \in entries} |->
            AnswerOf(t, Max({p \in entries : MarkerNum(t, p) = n}), inRangeOnly)]

-----------------------------------------------------------------------------
(* The question catalogue and the string literals of generateYearSummary.  *)
(* A table holds, under L<n>, the string literals of source line n in the   *)
(* order they are written; a template literal contributes its pieces       *)
(* between the ${...} substitutions.                                       *)

\* export const QUESTIONS: Question[] = [...]  (constants.ts; the part number is left out)
QUESTIONS == <<
    \* 1 "你今年做了哪些之前从未做过的事？" [探索]
    [id |-> 1, part |-> 1, category |-> <<25506, 32034>>,
     text |-> <<20320, 20170, 24180, 20570, 20102, 21738, 20123, 20043, 21069, 20174, 26410, 20570,
               36807, 30340, 20107, 65311>>],
    \* 2 "你坚持年初时和自己许下的约定了吗？" [承诺]
    [id |-> 2, part |-> 1, category |-> <<25215, 35834>>,
     text |-> <<20320, 22362, 25345, 24180, 21021, 26102, 21644, 33258, 24049, 35768, 19979, 30340,
               32422, 23450, 20102, 21527, 65311>>],
    \* 3 "你身边有人生孩子了吗？" [生命]
    [id |-> 3, part |-> 1, category |-> <<29983, 21629>>,
     text |-> <<20320, 36523, 36793, 26377, 20154, 29983, 23401, 23376, 20102, 21527, 65311>>],
    \* 4 "你身边有人去世了吗？" [离别]
    [id |-> 4, part |-> 1, category |-> <<31163, 21035>>,
     text |-> <<20320, 36523, 36793, 26377, 20154, 21435, 19990, 20102, 21527, 65311>>],
    \* 5 "你去了哪些城市/州/国家？" [足迹]
    [id |-> 5, part |-> 1, category |-> <<36275, 36857>>,
     text |-> <<20320, 21435, 20102, 21738, 20123, 22478, 24066, 47, 24030, 47, 22269, 23478, 65311>>],
    \* 6 "明年你想要拥有哪些今年没有的东西？" [愿望]
    [id |-> 6, part |-> 1, category |-> <<24895, 26395>>,
     text |-> <<26126, 24180, 20320, 24819, 35201, 25317, 26377, 21738, 20123, 20170, 24180, 27809,
               26377, 30340, 19996, 35199, 65311>>],
    \* 7 "今年的哪个或哪些日子会铭刻在你的记忆中，为什么？" [时刻]
    [id |-> 7, part |-> 1, category |-> <<26102, 21051>>,
     text |-> <<20170, 24180, 30340, 21738, 20010, 25110, 21738, 20123, 26085, 23376, 20250, 38125,
               21051, 22312, 20320, 30340, 35760, 24518, 20013, 65292, 20026, 20160, 20040, 65311>>],
    \* 8 "你今年最大的成就是什么？" [成就]
    [id |-> 8, part |-> 1, category |-> <<25104, 23601>>,
     text |-> <<20320, 20170, 24180, 26368, 22823, 30340, 25104, 23601, 26159, 20160, 20040, 65311>>],
    \* 9 "你今年最大的失败是什么？" [挫折]
    [id |-> 9, part |-> 1, category |-> <<25387, 25240>>,
     text |-> <<20320, 20170, 24180, 26368, 22823, 30340, 22833, 36133, 26159, 20160, 20040, 65311>>],
    \* 10 "你今年还遇到过哪些困难？" [挑战]
    [id |-> 10, part |-> 1, category |-> <<25361, 25112>>,
     text |-> <<20320, 20170, 24180, 36824, 36935, 21040, 36807, 21738, 20123, 22256, 38590, 65311>>],
    \* 11 "你今年是否生过病或受过伤？" [健康]
    [id |-> 11, part |-> 2, category |-> <<20581, 24247>>,
     text |-> <<20320, 20170, 24180, 26159, 21542, 29983, 36807, 30149, 25110, 21463, 36807, 20260,
               65311>>],
    \* 12 "你今年买过的最好的东西是什么？" [物质]
    [id |-> 12, part |-> 2, category |-> <<29289, 36136>>,
     text |-> <<20320, 20170, 24180, 20080, 36807, 30340, 26368, 22909, 30340, 19996, 35199, 26159,
               20160, 20040, 65311>>],
    \* 13 "谁的行为值得去表扬？" [他人]
    [id |-> 13, part |-> 2, category |-> <<20182, 20154>>,
     text |-> <<35841, 30340, 34892, 20026, 20540, 24471, 21435, 34920, 25196, 65311>>],
    \* 14 "谁的行为令你感到震惊？" [触动]
    [id |-> 14, part |-> 2, category |-> <<35302, 21160>>,
     text |-> <<35841, 30340, 34892, 20026, 20196, 20320, 24863, 21040, 38663, 24778, 65311>>],
    \* 15 "你大部分的钱都花到哪里去了？" [财务]
    [id |-> 15, part |-> 2, category |-> <<36130, 21153>>,
     text |-> <<20320, 22823, 37096, 20998, 30340, 38065, 37117, 33457, 21040, 21738, 37324, 21435,
               20102, 65311>>],
    \* 16 "有什么事让你感到超级、超级、超级兴奋？" [激情]
    [id |-> 16, part |-> 2, category |-> <<28608, 24773>>,
     text |-> <<26377, 20160, 20040, 20107, 35753, 20320, 24863, 21040, 36229, 32423, 12289, 36229,
               32423, 12289, 36229, 32423, 20852, 22859, 65311>>],
    \* 17 "哪首歌会永远让你想起这一年？" [旋律]
    [id |-> 17, part |-> 2, category |-> <<26059, 24459>>,
     text |-> <<21738, 39318, 27468, 20250, 27704, 36828, 35753, 20320, 24819, 36215, 36825, 19968,
               24180, 65311>>],
    \* 18 "与去年的这个时候相比，你是：感到更快乐还是更悲伤了？变得更瘦还是更胖了？变得更富还是更穷了？" [变化]
    [id |-> 18, part |-> 2, category |-> <<21464, 21270>>,
     text |-> <<19982, 21435, 24180, 30340, 36825, 20010, 26102, 20505, 30456, 27604, 65292, 20320,
               26159, 65306, 24863, 21040, 26356, 24555, 20048, 36824, 26159, 26356, 24754, 20260,
               20102, 65311, 21464, 24471, 26356, 30246, 36824, 26159, 26356, 32982, 20102, 65311,
               21464, 24471, 26356, 23500, 36824, 26159, 26356, 31351, 20102, 65311>>],
    \* 19 "你希望自己能做得更多的是什么？" [遗憾]
    [id |-> 19, part |-> 2, category |-> <<36951, 25022>>,
     text |-> <<20320, 24076, 26395, 33258, 24049, 33021, 20570, 24471, 26356, 22810, 30340, 26159,
               20160, 20040, 65311>>],
    \* 20 "你希望自己能做得更少的是什么？" [减法]
    [id |-> 20, part |-> 2, category |-> <<20943, 27861>>,
     text |-> <<20320, 24076, 26395, 33258, 24049, 33021, 20570, 24471, 26356, 23569, 30340, 26159,
               20160, 20040, 65311>>],
    \* 21 "你是如何度过节假日的？" [闲暇]
    [id |-> 21, part |-> 3, category |-> <<38386, 26247>>,
     text |-> <<20320, 26159, 22914, 20309, 24230, 36807, 33410, 20551, 26085, 30340, 65311>>],
    \* 22 "你今年坠入爱河了吗？" [情感]
    [id |-> 22, part |-> 3, category |-> <<24773, 24863>>,
     text |-> <<20320, 20170, 24180, 22368, 20837, 29233, 27827, 20102, 21527, 65311>>],
    \* 23 "你是否有讨厌某个你去年此时不觉得讨厌的人呢？" [人际]
    [id |-> 23, part |-> 3, category |-> <<20154, 38469>>,
     text |-> <<20320, 26159, 21542, 26377, 35752, 21388, 26576, 20010, 20320, 21435, 24180, 27492,
               26102, 19981, 35273, 24471, 35752, 21388, 30340, 20154, 21602, 65311>>],
    \* 24 "你最喜欢的电视节目是什么？" [娱乐]
    [id |-> 24, part |-> 3, category |-> <<23089, 20048>>,
     text |-> <<20320, 26368, 21916, 27426, 30340, 30005, 35270, 33410, 30446, 26159, 20160, 20040,
               65311>>],
    \* 25 "你读过最好的一本书是什么？" [阅读]
    [id |-> 25, part |-> 3, category |-> <<38405, 35835>>,
     text |-> <<20320, 35835, 36807, 26368, 22909, 30340, 19968, 26412, 20070, 26159, 20160, 20040,
               65311>>],
    \* 26 "你今年发现的最好听的一首歌是什么？" [发现]
    [id |-> 26, part |-> 3, category |-> <<21457, 29616>>,
     text |-> <<20320, 20170, 24180, 21457, 29616, 30340, 26368, 22909, 21548, 30340, 19968, 39318,
               27468, 26159, 20160, 20040, 65311>>],
    \* 27 "你今年看过最喜欢的一部电影是什么？" [光影]
    [id |-> 27, part |-> 3, category |-> <<20809, 24433>>,
     text |-> <<20320, 20170, 24180, 30475, 36807, 26368, 21916, 27426, 30340, 19968, 37096, 30005,
               24433, 26159, 20160, 20040, 65311>>],
    \* 28 "你今年吃过最好吃的一顿饭是什么？" [味蕾]
    [id |-> 28, part |-> 3, category |-> <<21619, 34174>>,
     text |-> <<20320, 20170, 24180, 21507, 36807, 26368, 22909, 21507, 30340, 19968, 39039, 39277,
               26159, 20160, 20040, 65311>>],
    \* 29 "有什么是你想要且得到了的？" [收获]
    [id |-> 29, part |-> 3, category |-> <<25910, 33719>>,
     text |-> <<26377, 20160, 20040, 26159, 20320, 24819, 35201, 19988, 24471, 21040, 20102, 30340,
               65311>>],
    \* 30 "有什么是你想要却没有得到的？" [未得]
    [id |-> 30, part |-> 3, category |-> <<26410, 24471>>,
     text |-> <<26377, 20160, 20040, 26159, 20320, 24819, 35201, 21364, 27809, 26377, 24471, 21040,
               30340, 65311>>],
    \* 31 "你生日那天做了什么？" [仪式]
    [id |-> 31, part |-> 4, category |-> <<20202, 24335>>,
     text |-> <<20320, 29983, 26085, 37027, 22825, 20570, 20102, 20160, 20040, 65311>>],
    \* 32 "还有什么未发生的事，如果发生了，会让你这一年变得无比满足？" [期待]
    [id |-> 32, part |-> 4, category |-> <<26399, 24453>>,
     text |-> <<36824, 26377, 20160, 20040, 26410, 21457, 29983, 30340, 20107, 65292, 22914, 26524,
               21457, 29983, 20102, 65292, 20250, 35753, 20320, 36825, 19968, 24180, 21464, 24471,
               26080, 27604, 28385, 36275, 65311>>],
    \* 33 "你会如何描述你今年的个人时尚风格？" [风格]
    [id |-> 33, part |-> 4, category |-> <<39118, 26684>>,
     text |-> <<20320, 20250, 22914, 20309, 25551, 36848, 20320, 20170, 24180, 30340, 20010, 20154,
               26102, 23578, 39118, 26684, 65311>>],
    \* 34 "是什么让你保持理智？" [支撑]
    [id |-> 34, part |-> 4, category |-> <<25903, 25745>>,
     text |-> <<26159, 20160, 20040, 35753, 20320, 20445, 25345, 29702, 26234, 65311>>],
    \* 35 "你最欣赏哪个名人/公众人物？" [偶像]
    [id |-> 35, part |-> 4, category |-> <<20598, 20687>>,
     text |-> <<20320, 26368, 27427, 36175, 21738, 20010, 21517, 20154, 47, 20844, 20247, 20154,
               29289, 65311>>],
    \* 36 "哪个政治问题最令你有感而发？" [观点]
    [id |-> 36, part |-> 4, category |-> <<35266, 28857>>,
     text |-> <<21738, 20010, 25919, 27835, 38382, 39064, 26368, 20196, 20320, 26377, 24863, 32780,
               21457, 65311>>],
    \* 37 "你想念哪些人？" [思念]
    [id |-> 37, part |-> 4, category |-> <<24605, 24565>>,
     text |-> <<20320, 24819, 24565, 21738, 20123, 20154, 65311>>],
    \* 38 "在你新认识的人之中，谁是最好的？" [相遇]
    [id |-> 38, part |-> 4, category |-> <<30456, 36935>>,
     text |-> <<22312, 20320, 26032, 35748, 35782, 30340, 20154, 20043, 20013, 65292, 35841, 26159,
               26368, 22909, 30340, 65311>>],
    \* 39 "今年你学到了什么宝贵的人生经验？" [成长]
    [id |-> 39, part |-> 4, category |-> <<25104, 38271>>,
     text |-> <<20170, 24180, 20320, 23398, 21040, 20102, 20160, 20040, 23453, 36149, 30340, 20154,
               29983, 32463, 39564, 65311>>],
    \* 40 "能够总结你这一年的一句话是什么？" [总结]
    [id |-> 40, part |-> 4, category |-> <<24635, 32467>>,
     text |-> <<33021, 22815, 24635, 32467, 20320, 36825, 19968, 24180, 30340, 19968, 21477, 35805,
               26159, 20160, 20040, 65311>>]
>>

\* the string literals of the categorisation loop
CategorizeText ==
    [L298 |-> <<
        \* 1: "Skipped"
        <<83, 107, 105, 112, 112, 101, 100>>
     >>,
     L302 |-> <<
        \* 1: "足迹"
        <<36275, 36857>>,
        \* 2: "旅行"
        <<26053, 34892>>,
        \* 3: "城市"
        <<22478, 24066>>
     >>,
     L304 |-> <<
        \* 1: "情感"
        <<24773, 24863>>,
        \* 2: "变化"
        <<21464, 21270>>,
        \* 3: "成长"
        <<25104, 38271>>,
        \* 4: "思念"
        <<24605, 24565>>
     >>,
     L306 |-> <<
        \* 1: "旋律"
        <<26059, 24459>>,
        \* 2: "娱乐"
        <<23089, 20048>>,
        \* 3: "阅读"
        <<38405, 35835>>,
        \* 4: "味蕾"
        <<21619, 34174>>
     >>,
     L308 |-> <<
        \* 1: "愿望"
        <<24895, 26395>>,
        \* 2: "期待"
        <<26399, 24453>>,
        \* 3: "总结"
        <<24635, 32467>>
     >>]

\* the string literals of generateCard1
Card1Text ==
    [L840 |-> <<
        \* 1: "Skipped"
        <<83, 107, 105, 112, 112, 101, 100>>
     >>,
     L841 |-> <<
        \* 1: "向北启程"
        <<21521, 21271, 21551, 31243>>,
        \* 2: "这一年，你在时光的河流中静静探索。那些未被记录的尝试与相遇，都化作温暖的养分，在未来的日子里悄然绽放。新的征程即将开启，愿你带着勇气与希望，继续书写属于自己的浪漫故事。"
        <<36825, 19968, 24180, 65292, 20320, 22312, 26102, 20809, 30340, 27827, 27969, 20013,
          38745, 38745, 25506, 32034, 12290, 37027, 20123, 26410, 34987, 35760, 24405, 30340,
          23581, 35797, 19982, 30456, 36935, 65292, 37117, 21270, 20316, 28201, 26262, 30340,
          20859, 20998, 65292, 22312, 26410, 26469, 30340, 26085, 23376, 37324, 24708, 28982,
          32509, 25918, 12290, 26032, 30340, 24449, 31243, 21363, 23558, 24320, 21551, 65292,
          24895, 20320, 24102, 30528, 21191, 27668, 19982, 24076, 26395, 65292, 32487, 32493,
          20070, 20889, 23646, 20110, 33258, 24049, 30340, 28010, 28459, 25925, 20107, 12290>>,
        \* 3: "GROWTH"
        <<71, 82, 79, 87, 84, 72>>,
        \* 4: "ticket"
        <<116, 105, 99, 107, 101, 116>>
     >>,
     L844 |-> <<
        \* 1: "新尝试"
        <<26032, 23581, 35797>>,
        \* 2: "第一次"
        <<31532, 19968, 27425>>
     >>,
     L845 |-> <<
        \* 1: "城市"
        <<22478, 24066>>,
        \* 2: "国家"
        <<22269, 23478>>,
        \* 3: "地方"
        <<22320, 26041>>
     >>,
     L846 |-> <<
        \* 1: "铭记"
        <<38125, 35760>>,
        \* 2: "难忘"
        <<38590, 24536>>
     >>,
     L847 |-> <<
        \* 1: "成就"
        <<25104, 23601>>,
        \* 2: "骄傲"
        <<39556, 20658>>
     >>,
     L848 |-> <<
        \* 1: "自我认识"
        <<33258, 25105, 35748, 35782>>,
        \* 2: "改变"
        <<25913, 21464>>
     >>,
     L849 |-> <<
        \* 1: "自我"
        <<33258, 25105>>,
        \* 2: "成长"
        <<25104, 38271>>
     >>,
     L852 |-> <<
        \* 1: "向北启程"
        <<21521, 21271, 21551, 31243>>,
        \* 2: "初试锋芒"
        <<21021, 35797, 38155, 33426>>,
        \* 3: "破茧而出"
        <<30772, 33575, 32780, 20986>>,
        \* 4: "解锁新境"
        <<35299, 38145, 26032, 22659>>,
        \* 5: "踏浪而行"
        <<36367, 28010, 32780, 34892>>,
        \* 6: "扶摇而上"
        <<25206, 25671, 32780, 19978>>,
        \* 7: "星途坦荡"
        <<26143, 36884, 22374, 33633>>,
        \* 8: "初心如磐"
        <<21021, 24515, 22914, 30928>>
     >>,
     L857 |-> <<
        \* 1: "向北启程"
        <<21521, 21271, 21551, 31243>>,
        \* 2: "踏浪而行"
        <<36367, 28010, 32780, 34892>>,
        \* 3: "星途坦荡"
        <<26143, 36884, 22374, 33633>>
     >>,
     L859 |-> <<
        \* 1: "初试锋芒"
        <<21021, 35797, 38155, 33426>>,
        \* 2: "破茧而出"
        <<30772, 33575, 32780, 20986>>,
        \* 3: "扶摇而上"
        <<25206, 25671, 32780, 19978>>
     >>,
     L861 |-> <<
        \* 1: "解锁新境"
        <<35299, 38145, 26032, 22659>>,
        \* 2: "初试锋芒"
        <<21021, 35797, 38155, 33426>>,
        \* 3: "破茧而出"
        <<30772, 33575, 32780, 20986>>
     >>,
     L863 |-> <<
        \* 1: "向内生长"
        <<21521, 20869, 29983, 38271>>,
        \* 2: "初心如磐"
        <<21021, 24515, 22914, 30928>>,
        \* 3: "解锁新境"
        <<35299, 38145, 26032, 22659>>
     >>,
     L872 |-> <<
        \* 1: "这一年，你勇敢尝试了"
        <<36825, 19968, 24180, 65292, 20320, 21191, 25954, 23581, 35797, 20102>>,
        \* 2: "，温暖的足迹也抵达了"
        <<65292, 28201, 26262, 30340, 36275, 36857, 20063, 25269, 36798, 20102>>,
        \* 3: "。那些未知的风景与新鲜的体验，如同春天的嫩芽，在你的生命里悄然生长。"
        <<12290, 37027, 20123, 26410, 30693, 30340, 39118, 26223, 19982, 26032, 40092, 30340,
          20307, 39564, 65292, 22914, 21516, 26149, 22825, 30340, 23273, 33469, 65292, 22312,
          20320, 30340, 29983, 21629, 37324, 24708, 28982, 29983, 38271, 12290>>
     >>,
     L874 |-> <<
        \* 1: "这一年，你温柔地推开了新世界的门，尝试了"
        <<36825, 19968, 24180, 65292, 20320, 28201, 26580, 22320, 25512, 24320, 20102, 26032,
          19990, 30028, 30340, 38376, 65292, 23581, 35797, 20102>>,
        \* 2: "。每一次突破舒适区的脚步，都在你的成长地图上留下了温暖的印记。"
        <<12290, 27599, 19968, 27425, 31361, 30772, 33298, 36866, 21306, 30340, 33050, 27493,
          65292, 37117, 22312, 20320, 30340, 25104, 38271, 22320, 22270, 19978, 30041, 19979,
          20102, 28201, 26262, 30340, 21360, 35760, 12290>>
     >>,
     L876 |-> <<
        \* 1: "这一年，你带着好奇心走过了"
        <<36825, 19968, 24180, 65292, 20320, 24102, 30528, 22909, 22855, 24515, 36208, 36807,
          20102>>,
        \* 2: "。不同的风土人情如同温暖的阳光，轻轻洒在你的心上，丰富了你对世界的认知。"
        <<12290, 19981, 21516, 30340, 39118, 22303, 20154, 24773, 22914, 21516, 28201, 26262,
          30340, 38451, 20809, 65292, 36731, 36731, 27922, 22312, 20320, 30340, 24515, 19978,
          65292, 20016, 23500, 20102, 20320, 23545, 19990, 30028, 30340, 35748, 30693, 12290>>
     >>,
     L878 |-> <<
        \* 1: "这一年，你在生活的画布上用心涂抹，每一笔都承载着对未知的温柔探索与真诚期待。"
        <<36825, 19968, 24180, 65292, 20320, 22312, 29983, 27963, 30340, 30011, 24067, 19978,
          29992, 24515, 28034, 25273, 65292, 27599, 19968, 31508, 37117, 25215, 36733, 30528,
          23545, 26410, 30693, 30340, 28201, 26580, 25506, 32034, 19982, 30495, 35802, 26399,
          24453, 12290>>
     >>,
     L886 |-> <<
        \* 1: "你用努力书写了"
        <<20320, 29992, 21162, 21147, 20070, 20889, 20102>>,
        \* 2: "的骄傲，也在时光的温暖沉淀中重新认识了自己："
        <<30340, 39556, 20658, 65292, 20063, 22312, 26102, 20809, 30340, 28201, 26262, 27785,
          28096, 20013, 37325, 26032, 35748, 35782, 20102, 33258, 24049, 65306>>,
        \* 3: "。这些成长的瞬间，如同星星点点的光，照亮了你未来的道路。"
        <<12290, 36825, 20123, 25104, 38271, 30340, 30636, 38388, 65292, 22914, 21516, 26143,
          26143, 28857, 28857, 30340, 20809, 65292, 29031, 20142, 20102, 20320, 26410, 26469,
          30340, 36947, 36335, 12290>>
     >>,
     L888 |-> <<
        \* 1: "你用汗水与坚持，收获了"
        <<20320, 29992, 27735, 27700, 19982, 22362, 25345, 65292, 25910, 33719, 20102>>,
        \* 2: "的成就。这份温暖的肯定，不仅是对过去的奖励，更是未来继续前行的动力源泉。"
        <<30340, 25104, 23601, 12290, 36825, 20221, 28201, 26262, 30340, 32943, 23450, 65292,
          19981, 20165, 26159, 23545, 36807, 21435, 30340, 22870, 21169, 65292, 26356, 26159,
          26410, 26469, 32487, 32493, 21069, 34892, 30340, 21160, 21147, 28304, 27849, 12290>>
     >>,
     L891 |-> <<
        \* 1: "在时光的温柔流淌中，你对自己有了新的认识："
        <<22312, 26102, 20809, 30340, 28201, 26580, 27969, 28108, 20013, 65292, 20320, 23545,
          33258, 24049, 26377, 20102, 26032, 30340, 35748, 35782, 65306>>,
        \* 2: "。这种向内的真诚探索，滋养着你生命的每一寸成长。"
        <<12290, 36825, 31181, 21521, 20869, 30340, 30495, 35802, 25506, 32034, 65292, 28363,
          20859, 30528, 20320, 29983, 21629, 30340, 27599, 19968, 23544, 25104, 38271, 12290>>
     >>,
     L893 |-> <<
        \* 1: "那些看似平凡的日子里，藏着你最真实的成长。每一次温暖的思考与感悟，都在悄悄塑造着更美好的自己。"
        <<37027, 20123, 30475, 20284, 24179, 20961, 30340, 26085, 23376, 37324, 65292, 34255,
          30528, 20320, 26368, 30495, 23454, 30340, 25104, 38271, 12290, 27599, 19968, 27425,
          28201, 26262, 30340, 24605, 32771, 19982, 24863, 24735, 65292, 37117, 22312, 24708,
          24708, 22609, 36896, 30528, 26356, 32654, 22909, 30340, 33258, 24049, 12290>>
     >>,
     L900 |-> <<
        \* 1: "特别是"
        <<29305, 21035, 26159>>,
        \* 2: "的那一刻，如同温暖的阳光，永远铭刻在你的记忆深处，成为生命中最珍贵的礼物。"
        <<30340, 37027, 19968, 21051, 65292, 22914, 21516, 28201, 26262, 30340, 38451, 20809,
          65292, 27704, 36828, 38125, 21051, 22312, 20320, 30340, 35760, 24518, 28145, 22788,
          65292, 25104, 20026, 29983, 21629, 20013, 26368, 29645, 36149, 30340, 31036, 29289,
          12290>>
     >>,
     L905 |-> <<
        \* 1: "\n\n"
        <<10, 10>>
     >>,
     L907 |-> <<
        \* 1: "未来的道路上，愿你带着这份温暖的成长力量，继续勇敢前行。"
        <<26410, 26469, 30340, 36947, 36335, 19978, 65292, 24895, 20320, 24102, 30528, 36825,
          20221, 28201, 26262, 30340, 25104, 38271, 21147, 37327, 65292, 32487, 32493, 21191,
          25954, 21069, 34892, 12290>>,
        \* 2: "新的旅程即将开启，愿你保持真诚与热爱，奔赴下一场浪漫的山海。"
        <<26032, 30340, 26053, 31243, 21363, 23558, 24320, 21551, 65292, 24895, 20320, 20445,
          25345, 30495, 35802, 19982, 28909, 29233, 65292, 22868, 36212, 19979, 19968, 22330,
          28010, 28459, 30340, 23665, 28023, 12290>>,
        \* 3: "所有温暖的经历都将化作光，照亮你未来的每一步路。"
        <<25152, 26377, 28201, 26262, 30340, 32463, 21382, 37117, 23558, 21270, 20316, 20809,
          65292, 29031, 20142, 20320, 26410, 26469, 30340, 27599, 19968, 27493, 36335, 12290>>
     >>,
     L908 |-> <<
        \* 1: "\n\n"
        <<10, 10>>
     >>,
     L913 |-> <<
        \* 1: "。"
        <<12290>>
     >>,
     L915 |-> <<
        \* 1: "每一个温暖的脚印都算数，每一次真诚的尝试都有意义。"
        <<27599, 19968, 20010, 28201, 26262, 30340, 33050, 21360, 37117, 31639, 25968, 65292,
          27599, 19968, 27425, 30495, 35802, 30340, 23581, 35797, 37117, 26377, 24847, 20041,
          12290>>,
        \* 2: "成长的道路或许曲折，但你从未停止温暖前行的脚步。"
        <<25104, 38271, 30340, 36947, 36335, 25110, 35768, 26354, 25240, 65292, 20294, 20320,
          20174, 26410, 20572, 27490, 28201, 26262, 21069, 34892, 30340, 33050, 27493, 12290>>,
        \* 3: "那些看似微小的改变，终将汇聚成生命中最浪漫的江河。"
        <<37027, 20123, 30475, 20284, 24494, 23567, 30340, 25913, 21464, 65292, 32456, 23558,
          27719, 32858, 25104, 29983, 21629, 20013, 26368, 28010, 28459, 30340, 27743, 27827,
          12290>>
     >>,
     L917 |-> <<
        \* 1: "\n\n"
        <<10, 10>>
     >>,
     L923 |-> <<
        \* 1: "GROWTH"
        <<71, 82, 79, 87, 84, 72>>
     >>,
     L924 |-> <<
        \* 1: "ticket"
        <<116, 105, 99, 107, 101, 116>>
     >>]

\* the string literals of generateCard2
Card2Text ==
    [L929 |-> <<
        \* 1: "Skipped"
        <<83, 107, 105, 112, 112, 101, 100>>
     >>,
     L930 |-> <<
        \* 1: "心有所依"
        <<24515, 26377, 25152, 20381>>,
        \* 2: "这一年，你的心始终被温柔包围着。那些未曾说出口的牵挂，那些默默陪伴的时光，都化作生命中最柔软的力量，在岁月里静静流淌，温暖着每一个晨昏。"
        <<36825, 19968, 24180, 65292, 20320, 30340, 24515, 22987, 32456, 34987, 28201, 26580,
          21253, 22260, 30528, 12290, 37027, 20123, 26410, 26366, 35828, 20986, 21475, 30340,
          29301, 25346, 65292, 37027, 20123, 40664, 40664, 38506, 20276, 30340, 26102, 20809,
          65292, 37117, 21270, 20316, 29983, 21629, 20013, 26368, 26580, 36719, 30340, 21147,
          37327, 65292, 22312, 23681, 26376, 37324, 38745, 38745, 27969, 28108, 65292, 28201,
          26262, 30528, 27599, 19968, 20010, 26216, 26127, 12290>>,
        \* 3: "EMOTIONS"
        <<69, 77, 79, 84, 73, 79, 78, 83>>,
        \* 4: "paper"
        <<112, 97, 112, 101, 114>>
     >>,
     L933 |-> <<
        \* 1: "重要的人际关系变化"
        <<37325, 35201, 30340, 20154, 38469, 20851, 31995, 21464, 21270>>,
        \* 2: "关系变化"
        <<20851, 31995, 21464, 21270>>
     >>,
     L934 |-> <<
        \* 1: "最大的改变"
        <<26368, 22823, 30340, 25913, 21464>>,
        \* 2: "最大改变"
        <<26368, 22823, 25913, 21464>>
     >>,
     L935 |-> <<
        \* 1: "感谢"
        <<24863, 35874>>,
        \* 2: "表扬"
        <<34920, 25196>>
     >>,
     L936 |-> <<
        \* 1: "爱"
        <<29233>>,
        \* 2: "恋爱"
        <<24651, 29233>>
     >>,
     L937 |-> <<
        \* 1: "思念"
        <<24605, 24565>>,
        \* 2: "想念"
        <<24819, 24565>>
     >>,
     L938 |-> <<
        \* 1: "联系频率"
        <<32852, 31995, 39057, 29575>>,
        \* 2: "多久联系"
        <<22810, 20037, 32852, 31995>>
     >>,
     L941 |-> <<
        \* 1: "心有所依"
        <<24515, 26377, 25152, 20381>>,
        \* 2: "温柔相遇"
        <<28201, 26580, 30456, 36935>>,
        \* 3: "双向奔赴"
        <<21452, 21521, 22868, 36212>>,
        \* 4: "并肩同行"
        <<24182, 32937, 21516, 34892>>,
        \* 5: "温暖相伴"
        <<28201, 26262, 30456, 20276>>,
        \* 6: "思念如星"
        <<24605, 24565, 22914, 26143>>,
        \* 7: "感恩遇见"
        <<24863, 24681, 36935, 35265>>,
        \* 8: "情系于心"
        <<24773, 31995, 20110, 24515>>
     >>,
     L946 |-> <<
        \* 1: "思念如星"
        <<24605, 24565, 22914, 26143>>,
        \* 2: "情系于心"
        <<24773, 31995, 20110, 24515>>,
        \* 3: "心有所依"
        <<24515, 26377, 25152, 20381>>
     >>,
     L948 |-> <<
        \* 1: "感恩遇见"
        <<24863, 24681, 36935, 35265>>,
        \* 2: "温暖相伴"
        <<28201, 26262, 30456, 20276>>,
        \* 3: "温柔相遇"
        <<28201, 26580, 30456, 36935>>
     >>,
     L949 |-> <<
        \* 1: "爱"
        <<29233>>
     >>,
     L950 |-> <<
        \* 1: "双向奔赴"
        <<21452, 21521, 22868, 36212>>,
        \* 2: "并肩同行"
        <<24182, 32937, 21516, 34892>>,
        \* 3: "温柔相遇"
        <<28201, 26580, 30456, 36935>>
     >>,
     L959 |-> <<
        \* 1: "这一年，你的人际关系如同春江水暖，有了"
        <<36825, 19968, 24180, 65292, 20320, 30340, 20154, 38469, 20851, 31995, 22914, 21516,
          26149, 27743, 27700, 26262, 65292, 26377, 20102>>,
        \* 2: "的温柔变化。而最让你心尖发烫的，是"
        <<30340, 28201, 26580, 21464, 21270, 12290, 32780, 26368, 35753, 20320, 24515, 23574,
          21457, 28907, 30340, 65292, 26159>>,
        \* 3: "的那份温暖。这份心意，如同春日里的第一缕阳光，轻轻洒在你的心房。"
        <<30340, 37027, 20221, 28201, 26262, 12290, 36825, 20221, 24515, 24847, 65292, 22914,
          21516, 26149, 26085, 37324, 30340, 31532, 19968, 32533, 38451, 20809, 65292, 36731,
          36731, 27922, 22312, 20320, 30340, 24515, 25151, 12290>>
     >>,
     L961 |-> <<
        \* 1: "这一年，你最想感谢的是"
        <<36825, 19968, 24180, 65292, 20320, 26368, 24819, 24863, 35874, 30340, 26159>>,
        \* 2: "。那些被温柔以待的时刻，那些默默支持的力量，都成为你生命中最珍贵的星光。"
        <<12290, 37027, 20123, 34987, 28201, 26580, 20197, 24453, 30340, 26102, 21051, 65292,
          37027, 20123, 40664, 40664, 25903, 25345, 30340, 21147, 37327, 65292, 37117, 25104,
          20026, 20320, 29983, 21629, 20013, 26368, 29645, 36149, 30340, 26143, 20809, 12290>>
     >>,
     L963 |-> <<
        \* 1: "这一年，你的人际关系经历了"
        <<36825, 19968, 24180, 65292, 20320, 30340, 20154, 38469, 20851, 31995, 32463, 21382,
          20102>>,
        \* 2: "的流转。那些温柔的相遇与体面的告别，都让你更加懂得珍惜眼前的温暖。"
        <<30340, 27969, 36716, 12290, 37027, 20123, 28201, 26580, 30340, 30456, 36935, 19982,
          20307, 38754, 30340, 21578, 21035, 65292, 37117, 35753, 20320, 26356, 21152, 25026,
          24471, 29645, 24796, 30524, 21069, 30340, 28201, 26262, 12290>>
     >>,
     L964 |-> <<
        \* 1: "爱"
        <<29233>>
     >>,
     L965 |-> <<
        \* 1: "这一年，爱如同春风般掠过你的生命。"
        <<36825, 19968, 24180, 65292, 29233, 22914, 21516, 26149, 39118, 33324, 25504, 36807,
          20320, 30340, 29983, 21629, 12290>>,
        \* 2: "的时光，如同细水长流，在你的心田里缓缓流淌。"
        <<30340, 26102, 20809, 65292, 22914, 21516, 32454, 27700, 38271, 27969, 65292, 22312,
          20320, 30340, 24515, 30000, 37324, 32531, 32531, 27969, 28108, 12290>>
     >>,
     L967 |-> <<
        \* 1: "这一年，你的内心始终被温柔包围着。那些看似平凡的陪伴，那些未曾言说的默契，都在悄然间治愈着你的心灵。"
        <<36825, 19968, 24180, 65292, 20320, 30340, 20869, 24515, 22987, 32456, 34987, 28201,
          26580, 21253, 22260, 30528, 12290, 37027, 20123, 30475, 20284, 24179, 20961, 30340,
          38506, 20276, 65292, 37027, 20123, 26410, 26366, 35328, 35828, 30340, 40664, 22865,
          65292, 37117, 22312, 24708, 28982, 38388, 27835, 24840, 30528, 20320, 30340, 24515,
          28789, 12290>>
     >>,
     L974 |-> <<
        \* 1: "每当想起"
        <<27599, 24403, 24819, 36215>>,
        \* 2: "，你的心中总会涌起一丝温柔的思念。那些相隔千里的牵挂，如同月光下的湖水，波光粼粼，让你明白：爱从未走远，只是换了一种方式陪伴。"
        <<65292, 20320, 30340, 24515, 20013, 24635, 20250, 28044, 36215, 19968, 19997, 28201,
          26580, 30340, 24605, 24565, 12290, 37027, 20123, 30456, 38548, 21315, 37324, 30340,
          29301, 25346, 65292, 22914, 21516, 26376, 20809, 19979, 30340, 28246, 27700, 65292,
          27874, 20809, 31932, 31932, 65292, 35753, 20320, 26126, 30333, 65306, 29233, 20174,
          26410, 36208, 36828, 65292, 21482, 26159, 25442, 20102, 19968, 31181, 26041, 24335,
          38506, 20276, 12290>>
     >>,
     L976 |-> <<
        \* 1: "你与重要的人保持着"
        <<20320, 19982, 37325, 35201, 30340, 20154, 20445, 25345, 30528>>,
        \* 2: "的联系频率。这种看似平淡的坚持，如同细水长流，恰恰是感情最长久的模样。"
        <<30340, 32852, 31995, 39057, 29575, 12290, 36825, 31181, 30475, 20284, 24179, 28129,
          30340, 22362, 25345, 65292, 22914, 21516, 32454, 27700, 38271, 27969, 65292, 24688,
          24688, 26159, 24863, 24773, 26368, 38271, 20037, 30340, 27169, 26679, 12290>>
     >>,
     L977 |-> <<
        \* 1: "关系"
        <<20851, 31995>>,
        \* 2: "改变"
        <<25913, 21464>>
     >>,
     L978 |-> <<
        \* 1: "这一年你最大的改变，是学会了在人际关系中更加温柔以待。这种成长，如同春风拂面，让你的世界充满了温暖与善意。"
        <<36825, 19968, 24180, 20320, 26368, 22823, 30340, 25913, 21464, 65292, 26159, 23398,
          20250, 20102, 22312, 20154, 38469, 20851, 31995, 20013, 26356, 21152, 28201, 26580,
          20197, 24453, 12290, 36825, 31181, 25104, 38271, 65292, 22914, 21516, 26149, 39118,
          25282, 38754, 65292, 35753, 20320, 30340, 19990, 30028, 20805, 28385, 20102, 28201,
          26262, 19982, 21892, 24847, 12290>>
     >>,
     L980 |-> <<
        \* 1: "那些未曾说出口的感谢，那些默默珍藏的回忆，都在时光里酿成了最甜美的酒。愿这份温柔，永远伴随你左右。"
        <<37027, 20123, 26410, 26366, 35828, 20986, 21475, 30340, 24863, 35874, 65292, 37027,
          20123, 40664, 40664, 29645, 34255, 30340, 22238, 24518, 65292, 37117, 22312, 26102,
          20809, 37324, 37247, 25104, 20102, 26368, 29980, 32654, 30340, 37202, 12290, 24895,
          36825, 20221, 28201, 26580, 65292, 27704, 36828, 20276, 38543, 20320, 24038, 21491,
          12290>>
     >>,
     L985 |-> <<
        \* 1: "\n\n"
        <<10, 10>>
     >>,
     L987 |-> <<
        \* 1: "。"
        <<12290>>
     >>,
     L989 |-> <<
        \* 1: "那些被爱包围的日子，是你最珍贵的温暖财富。"
        <<37027, 20123, 34987, 29233, 21253, 22260, 30340, 26085, 23376, 65292, 26159, 20320,
          26368, 29645, 36149, 30340, 28201, 26262, 36130, 23500, 12290>>,
        \* 2: "愿这份温柔，成为你永远的力量源泉。"
        <<24895, 36825, 20221, 28201, 26580, 65292, 25104, 20026, 20320, 27704, 36828, 30340,
          21147, 37327, 28304, 27849, 12290>>,
        \* 3: "在爱与被爱中，你学会了更好地拥抱自己。"
        <<22312, 29233, 19982, 34987, 29233, 20013, 65292, 20320, 23398, 20250, 20102, 26356,
          22909, 22320, 25317, 25265, 33258, 24049, 12290>>
     >>,
     L991 |-> <<
        \* 1: "\n\n"
        <<10, 10>>
     >>,
     L997 |-> <<
        \* 1: "EMOTIONS"
        <<69, 77, 79, 84, 73, 79, 78, 83>>
     >>,
     L998 |-> <<
        \* 1: "paper"
        <<112, 97, 112, 101, 114>>
     >>]

\* the string literals of generateCard3
Card3Text ==
    [L1003 |-> <<
        \* 1: "Skipped"
        <<83, 107, 105, 112, 112, 101, 100>>
     >>,
     L1004 |-> <<
        \* 1: "烟火人间"
        <<28895, 28779, 20154, 38388>>,
        \* 2: "这一年，你在烟火日常里酿出生活的诗意。那些关于美食、音乐与书的小确幸，如同星子般点亮你的晨昏，让每一个平凡的日子都泛着温暖的光。"
        <<36825, 19968, 24180, 65292, 20320, 22312, 28895, 28779, 26085, 24120, 37324, 37247,
          20986, 29983, 27963, 30340, 35799, 24847, 12290, 37027, 20123, 20851, 20110, 32654,
          39135, 12289, 38899, 20048, 19982, 20070, 30340, 23567, 30830, 24184, 65292, 22914,
          21516, 26143, 23376, 33324, 28857, 20142, 20320, 30340, 26216, 26127, 65292, 35753,
          27599, 19968, 20010, 24179, 20961, 30340, 26085, 23376, 37117, 27867, 30528, 28201,
          26262, 30340, 20809, 12290>>,
        \* 3: "TASTES"
        <<84, 65, 83, 84, 69, 83>>,
        \* 4: "note"
        <<110, 111, 116, 101>>
     >>,
     L1007 |-> <<
        \* 1: "好物"
        <<22909, 29289>>,
        \* 2: "买过"
        <<20080, 36807>>
     >>,
     L1008 |-> <<
        \* 1: "花钱"
        <<33457, 38065>>,
        \* 2: "消费"
        <<28040, 36153>>
     >>,
     L1009 |-> <<
        \* 1: "生活方式"
        <<29983, 27963, 26041, 24335>>,
        \* 2: "生活方式选择"
        <<29983, 27963, 26041, 24335, 36873, 25321>>
     >>,
     L1010 |-> <<
        \* 1: "书"
        <<20070>>,
        \* 2: "阅读"
        <<38405, 35835>>
     >>,
     L1011 |-> <<
        \* 1: "电影"
        <<30005, 24433>>,
        \* 2: "看的电影"
        <<30475, 30340, 30005, 24433>>
     >>,
     L1012 |-> <<
        \* 1: "音乐"
        <<38899, 20048>>,
        \* 2: "年度之歌"
        <<24180, 24230, 20043, 27468>>
     >>,
     L1013 |-> <<
        \* 1: "美食"
        <<32654, 39135>>,
        \* 2: "吃的"
        <<21507, 30340>>,
        \* 3: "味觉"
        <<21619, 35273>>
     >>,
     L1014 |-> <<
        \* 1: "生日"
        <<29983, 26085>>,
        \* 2: "怎么庆祝"
        <<24590, 20040, 24198, 31069>>
     >>,
     L1015 |-> <<
        \* 1: "个人风格"
        <<20010, 20154, 39118, 26684>>,
        \* 2: "风格"
        <<39118, 26684>>,
        \* 3: "审美"
        <<23457, 32654>>
     >>,
     L1018 |-> <<
        \* 1: "烟火人间"
        <<28895, 28779, 20154, 38388>>,
        \* 2: "诗酒年华"
        <<35799, 37202, 24180, 21326>>,
        \* 3: "况味日常"
        <<20917, 21619, 26085, 24120>>,
        \* 4: "简素欢喜"
        <<31616, 32032, 27426, 21916>>,
        \* 5: "人间烟火"
        <<20154, 38388, 28895, 28779>>,
        \* 6: "食色生香"
        <<39135, 33394, 29983, 39321>>,
        \* 7: "雅俗共赏"
        <<38597, 20439, 20849, 36175>>,
        \* 8: "岁月静好"
        <<23681, 26376, 38745, 22909>>
     >>,
     L1023 |-> <<
        \* 1: "烟火人间"
        <<28895, 28779, 20154, 38388>>,
        \* 2: "食色生香"
        <<39135, 33394, 29983, 39321>>,
        \* 3: "人间烟火"
        <<20154, 38388, 28895, 28779>>
     >>,
     L1025 |-> <<
        \* 1: "诗酒年华"
        <<35799, 37202, 24180, 21326>>,
        \* 2: "雅俗共赏"
        <<38597, 20439, 20849, 36175>>,
        \* 3: "简素欢喜"
        <<31616, 32032, 27426, 21916>>
     >>,
     L1027 |-> <<
        \* 1: "简素欢喜"
        <<31616, 32032, 27426, 21916>>,
        \* 2: "况味日常"
        <<20917, 21619, 26085, 24120>>,
        \* 3: "岁月静好"
        <<23681, 26376, 38745, 22909>>
     >>,
     L1036 |-> <<
        \* 1: "、"
        <<12289>>,
        \* 2: "文化消费"
        <<25991, 21270, 28040, 36153>>
     >>,
     L1037 |-> <<
        \* 1: "这一年，你选择了"
        <<36825, 19968, 24180, 65292, 20320, 36873, 25321, 20102>>,
        \* 2: "的生活方式，在"
        <<30340, 29983, 27963, 26041, 24335, 65292, 22312>>,
        \* 3: "中诗意地栖居。那些沉浸在艺术与美的时光，如同春风拂过心田，让你的生活泛着温柔的光。"
        <<20013, 35799, 24847, 22320, 26646, 23621, 12290, 37027, 20123, 27785, 28024, 22312,
          33402, 26415, 19982, 32654, 30340, 26102, 20809, 65292, 22914, 21516, 26149, 39118,
          25282, 36807, 24515, 30000, 65292, 35753, 20320, 30340, 29983, 27963, 27867, 30528,
          28201, 26580, 30340, 20809, 12290>>
     >>,
     L1039 |-> <<
        \* 1: "、"
        <<12289>>,
        \* 2: "文化消费"
        <<25991, 21270, 28040, 36153>>
     >>,
     L1040 |-> <<
        \* 1: "这一年，你在"
        <<36825, 19968, 24180, 65292, 20320, 22312>>,
        \* 2: "中找到了心灵的桃花源。那些与文字、旋律、光影相遇的时刻，如同清泉般滋养着你的精神世界。"
        <<20013, 25214, 21040, 20102, 24515, 28789, 30340, 26691, 33457, 28304, 12290, 37027,
          20123, 19982, 25991, 23383, 12289, 26059, 24459, 12289, 20809, 24433, 30456, 36935,
          30340, 26102, 21051, 65292, 22914, 21516, 28165, 27849, 33324, 28363, 20859, 30528,
          20320, 30340, 31934, 31070, 19990, 30028, 12290>>
     >>,
     L1042 |-> <<
        \* 1: "这一年，你选择了"
        <<36825, 19968, 24180, 65292, 20320, 36873, 25321, 20102>>,
        \* 2: "的生活方式。这种不疾不徐的优雅姿态，让你在喧嚣的世界中守着一方宁静的天地。"
        <<30340, 29983, 27963, 26041, 24335, 12290, 36825, 31181, 19981, 30142, 19981, 24464,
          30340, 20248, 38597, 23039, 24577, 65292, 35753, 20320, 22312, 21927, 22179, 30340,
          19990, 30028, 20013, 23432, 30528, 19968, 26041, 23425, 38745, 30340, 22825, 22320,
          12290>>
     >>,
     L1044 |-> <<
        \* 1: "这一年，你在烟火日常里用心书写着生活的诗行。那些看似琐碎的点滴，因为你的热爱与专注，都绽放出独特的美好。"
        <<36825, 19968, 24180, 65292, 20320, 22312, 28895, 28779, 26085, 24120, 37324, 29992,
          24515, 20070, 20889, 30528, 29983, 27963, 30340, 35799, 34892, 12290, 37027, 20123,
          30475, 20284, 29712, 30862, 30340, 28857, 28404, 65292, 22240, 20026, 20320, 30340,
          28909, 29233, 19982, 19987, 27880, 65292, 37117, 32509, 25918, 20986, 29420, 29305,
          30340, 32654, 22909, 12290>>
     >>,
     L1051 |-> <<
        \* 1: "你对"
        <<20320, 23545>>,
        \* 2: "的热爱，正如你"
        <<30340, 28909, 29233, 65292, 27491, 22914, 20320>>,
        \* 3: "的个人风格一般，鲜活而热烈。这种对生活美学的执着追求，让你的每一天都交织着诱人的色彩与芬芳的味道。"
        <<30340, 20010, 20154, 39118, 26684, 19968, 33324, 65292, 40092, 27963, 32780, 28909,
          28872, 12290, 36825, 31181, 23545, 29983, 27963, 32654, 23398, 30340, 25191, 30528,
          36861, 27714, 65292, 35753, 20320, 30340, 27599, 19968, 22825, 37117, 20132, 32455,
          30528, 35825, 20154, 30340, 33394, 24425, 19982, 33452, 33459, 30340, 21619, 36947,
          12290>>
     >>,
     L1053 |-> <<
        \* 1: "你对"
        <<20320, 23545>>,
        \* 2: "的热爱，是生活最甜美的注脚。那些舌尖上绽放的惊喜，如同春天的花火，永远鲜活在你的记忆深处。"
        <<30340, 28909, 29233, 65292, 26159, 29983, 27963, 26368, 29980, 32654, 30340, 27880,
          33050, 12290, 37027, 20123, 33292, 23574, 19978, 32509, 25918, 30340, 24778, 21916,
          65292, 22914, 21516, 26149, 22825, 30340, 33457, 28779, 65292, 27704, 36828, 40092,
          27963, 22312, 20320, 30340, 35760, 24518, 28145, 22788, 12290>>
     >>,
     L1055 |-> <<
        \* 1: "你的"
        <<20320, 30340>>,
        \* 2: "个人风格，是生活最优雅的名片。这种对美的坚持，让你在人群中如同一株静静绽放的幽兰，散发着独特的魅力。"
        <<20010, 20154, 39118, 26684, 65292, 26159, 29983, 27963, 26368, 20248, 38597, 30340,
          21517, 29255, 12290, 36825, 31181, 23545, 32654, 30340, 22362, 25345, 65292, 35753,
          20320, 22312, 20154, 32676, 20013, 22914, 21516, 19968, 26666, 38745, 38745, 32509,
          25918, 30340, 24189, 20848, 65292, 25955, 21457, 30528, 29420, 29305, 30340, 39749,
          21147, 12290>>
     >>,
     L1057 |-> <<
        \* 1: "、"
        <<12289>>,
        \* 2: "消费选择"
        <<28040, 36153, 36873, 25321>>
     >>,
     L1058 |-> <<
        \* 1: "你的"
        <<20320, 30340>>,
        \* 2: "，处处彰显着对生活美学的独到见解。这些看似微小的选择，串起了你独特的生活哲学。"
        <<65292, 22788, 22788, 24432, 26174, 30528, 23545, 29983, 27963, 32654, 23398, 30340,
          29420, 21040, 35265, 35299, 12290, 36825, 20123, 30475, 20284, 24494, 23567, 30340,
          36873, 25321, 65292, 20018, 36215, 20102, 20320, 29420, 29305, 30340, 29983, 27963,
          21746, 23398, 12290>>
     >>,
     L1060 |-> <<
        \* 1: "那些生活中的小确幸，如同散落的星光，温柔地照亮你的每一个晨昏。你用诗意的眼光，将平凡日子过成了别人羡慕的风景。"
        <<37027, 20123, 29983, 27963, 20013, 30340, 23567, 30830, 24184, 65292, 22914, 21516,
          25955, 33853, 30340, 26143, 20809, 65292, 28201, 26580, 22320, 29031, 20142, 20320,
          30340, 27599, 19968, 20010, 26216, 26127, 12290, 20320, 29992, 35799, 24847, 30340,
          30524, 20809, 65292, 23558, 24179, 20961, 26085, 23376, 36807, 25104, 20102, 21035,
          20154, 32673, 24917, 30340, 39118, 26223, 12290>>
     >>,
     L1067 |-> <<
        \* 1: "特别是"
        <<29305, 21035, 26159>>,
        \* 2: "的生日庆祝，如同一场温馨的梦，成为这一年最珍贵的美好印记。"
        <<30340, 29983, 26085, 24198, 31069, 65292, 22914, 21516, 19968, 22330, 28201, 39336,
          30340, 26790, 65292, 25104, 20026, 36825, 19968, 24180, 26368, 29645, 36149, 30340,
          32654, 22909, 21360, 35760, 12290>>
     >>,
     L1072 |-> <<
        \* 1: "\n\n"
        <<10, 10>>
     >>,
     L1074 |-> <<
        \* 1: "。"
        <<12290>>
     >>,
     L1076 |-> <<
        \* 1: "生活的美学，正藏在这些温柔的烟火细节里。"
        <<29983, 27963, 30340, 32654, 23398, 65292, 27491, 34255, 22312, 36825, 20123, 28201,
          26580, 30340, 28895, 28779, 32454, 33410, 37324, 12290>>,
        \* 2: "你用热爱与诗意，把平凡日子酿成了甜美的酒。"
        <<20320, 29992, 28909, 29233, 19982, 35799, 24847, 65292, 25226, 24179, 20961, 26085,
          23376, 37247, 25104, 20102, 29980, 32654, 30340, 37202, 12290>>,
        \* 3: "这些关于美的体验，将是你一生珍贵的精神宝藏。"
        <<36825, 20123, 20851, 20110, 32654, 30340, 20307, 39564, 65292, 23558, 26159, 20320,
          19968, 29983, 29645, 36149, 30340, 31934, 31070, 23453, 34255, 12290>>
     >>,
     L1078 |-> <<
        \* 1: "\n\n"
        <<10, 10>>
     >>,
     L1084 |-> <<
        \* 1: "TASTES"
        <<84, 65, 83, 84, 69, 83>>
     >>,
     L1085 |-> <<
        \* 1: "note"
        <<110, 111, 116, 101>>
     >>]

\* the string literals of generateCard4
Card4Text ==
    [L1090 |-> <<
        \* 1: "Skipped"
        <<83, 107, 105, 112, 112, 101, 100>>
     >>,
     L1091 |-> <<
        \* 1: "笃定前行"
        <<31491, 23450, 21069, 34892>>,
        \* 2: "新的一年即将到来，你带着满满的期待与勇气，准备迎接新的挑战。那些未实现的愿望，那些想要改变的地方，都将成为你前进的动力。愿你在新的旅程中，保持初心，笃定前行。"
        <<26032, 30340, 19968, 24180, 21363, 23558, 21040, 26469, 65292, 20320, 24102, 30528,
          28385, 28385, 30340, 26399, 24453, 19982, 21191, 27668, 65292, 20934, 22791, 36814,
          25509, 26032, 30340, 25361, 25112, 12290, 37027, 20123, 26410, 23454, 29616, 30340,
          24895, 26395, 65292, 37027, 20123, 24819, 35201, 25913, 21464, 30340, 22320, 26041,
          65292, 37117, 23558, 25104, 20026, 20320, 21069, 36827, 30340, 21160, 21147, 12290,
          24895, 20320, 22312, 26032, 30340, 26053, 31243, 20013, 65292, 20445, 25345, 21021,
          24515, 65292, 31491, 23450, 21069, 34892, 12290>>,
        \* 3: "FUTURE"
        <<70, 85, 84, 85, 82, 69>>,
        \* 4: "polaroid"
        <<112, 111, 108, 97, 114, 111, 105, 100>>
     >>,
     L1094 |-> <<
        \* 1: "明年"
        <<26126, 24180>>,
        \* 2: "想要"
        <<24819, 35201>>
     >>,
     L1095 |-> <<
        \* 1: "更多"
        <<26356, 22810>>,
        \* 2: "增加"
        <<22686, 21152>>
     >>,
     L1096 |-> <<
        \* 1: "更少"
        <<26356, 23569>>,
        \* 2: "减少"
        <<20943, 23569>>
     >>,
     L1097 |-> <<
        \* 1: "没得到"
        <<27809, 24471, 21040>>,
        \* 2: "遗憾"
        <<36951, 25022>>,
        \* 3: "未实现"
        <<26410, 23454, 29616>>
     >>,
     L1098 |-> <<
        \* 1: "未发生的事"
        <<26410, 21457, 29983, 30340, 20107>>,
        \* 2: "希望发生"
        <<24076, 26395, 21457, 29983>>
     >>,
     L1099 |-> <<
        \* 1: "力量来源"
        <<21147, 37327, 26469, 28304>>,
        \* 2: "保持理智"
        <<20445, 25345, 29702, 26234>>
     >>,
     L1100 |-> <<
        \* 1: "一句话"
        <<19968, 21477, 35805>>,
        \* 2: "总结"
        <<24635, 32467>>
     >>,
     L1103 |-> <<
        \* 1: "笃定前行"
        <<31491, 23450, 21069, 34892>>,
        \* 2: "更远征途"
        <<26356, 36828, 24449, 36884>>,
        \* 3: "无畏向前"
        <<26080, 30031, 21521, 21069>>,
        \* 4: "坚定如初"
        <<22362, 23450, 22914, 21021>>,
        \* 5: "心向远方"
        <<24515, 21521, 36828, 26041>>,
        \* 6: "逐梦未来"
        <<36880, 26790, 26410, 26469>>,
        \* 7: "破茧成蝶"
        <<30772, 33575, 25104, 34678>>,
        \* 8: "重启征程"
        <<37325, 21551, 24449, 31243>>
     >>,
     L1108 |-> <<
        \* 1: "心向远方"
        <<24515, 21521, 36828, 26041>>,
        \* 2: "逐梦未来"
        <<36880, 26790, 26410, 26469>>,
        \* 3: "笃定前行"
        <<31491, 23450, 21069, 34892>>
     >>,
     L1110 |-> <<
        \* 1: "破茧成蝶"
        <<30772, 33575, 25104, 34678>>,
        \* 2: "重启征程"
        <<37325, 21551, 24449, 31243>>,
        \* 3: "无畏向前"
        <<26080, 30031, 21521, 21069>>
     >>,
     L1112 |-> <<
        \* 1: "坚定如初"
        <<22362, 23450, 22914, 21021>>,
        \* 2: "更远征途"
        <<26356, 36828, 24449, 36884>>,
        \* 3: "笃定前行"
        <<31491, 23450, 21069, 34892>>
     >>,
     L1121 |-> <<
        \* 1: "新的一年，你最期待的是"
        <<26032, 30340, 19968, 24180, 65292, 20320, 26368, 26399, 24453, 30340, 26159>>,
        \* 2: "。这份期待如同明亮的灯塔，为你照亮前进的方向。"
        <<12290, 36825, 20221, 26399, 24453, 22914, 21516, 26126, 20142, 30340, 28783, 22612,
          65292, 20026, 20320, 29031, 20142, 21069, 36827, 30340, 26041, 21521, 12290>>
     >>,
     L1123 |-> <<
        \* 1: "你一直期待着"
        <<20320, 19968, 30452, 26399, 24453, 30528>>,
        \* 2: "的发生。新的一年，愿这份期待能成为现实。"
        <<30340, 21457, 29983, 12290, 26032, 30340, 19968, 24180, 65292, 24895, 36825, 20221,
          26399, 24453, 33021, 25104, 20026, 29616, 23454, 12290>>
     >>,
     L1125 |-> <<
        \* 1: "新的一年即将到来，你带着满满的期待，准备迎接属于自己的精彩。"
        <<26032, 30340, 19968, 24180, 21363, 23558, 21040, 26469, 65292, 20320, 24102, 30528,
          28385, 28385, 30340, 26399, 24453, 65292, 20934, 22791, 36814, 25509, 23646, 20110,
          33258, 24049, 30340, 31934, 24425, 12290>>
     >>,
     L1132 |-> <<
        \* 1: "在新的一年里，你希望能多做"
        <<22312, 26032, 30340, 19968, 24180, 37324, 65292, 20320, 24076, 26395, 33021, 22810,
          20570>>,
        \* 2: "，同时减少"
        <<65292, 21516, 26102, 20943, 23569>>,
        \* 3: "。这种有进有退的智慧，将帮助你更好地平衡生活与梦想。"
        <<12290, 36825, 31181, 26377, 36827, 26377, 36864, 30340, 26234, 24935, 65292, 23558,
          24110, 21161, 20320, 26356, 22909, 22320, 24179, 34913, 29983, 27963, 19982, 26790,
          24819, 12290>>
     >>,
     L1134 |-> <<
        \* 1: "你希望在新的一年里能多做"
        <<20320, 24076, 26395, 22312, 26032, 30340, 19968, 24180, 37324, 33021, 22810, 20570>>,
        \* 2: "。这种积极向上的态度，将为你的生活注入新的活力。"
        <<12290, 36825, 31181, 31215, 26497, 21521, 19978, 30340, 24577, 24230, 65292, 23558,
          20026, 20320, 30340, 29983, 27963, 27880, 20837, 26032, 30340, 27963, 21147, 12290>>
     >>,
     L1136 |-> <<
        \* 1: "你决心在新的一年里减少"
        <<20320, 20915, 24515, 22312, 26032, 30340, 19968, 24180, 37324, 20943, 23569>>,
        \* 2: "。学会取舍，才能更好地专注于真正重要的事情。"
        <<12290, 23398, 20250, 21462, 33293, 65292, 25165, 33021, 26356, 22909, 22320, 19987,
          27880, 20110, 30495, 27491, 37325, 35201, 30340, 20107, 24773, 12290>>
     >>,
     L1138 |-> <<
        \* 1: "你渴望在新的一年里有所改变，这种改变不是为了迎合他人，而是为了成为更好的自己。"
        <<20320, 28212, 26395, 22312, 26032, 30340, 19968, 24180, 37324, 26377, 25152, 25913,
          21464, 65292, 36825, 31181, 25913, 21464, 19981, 26159, 20026, 20102, 36814, 21512,
          20182, 20154, 65292, 32780, 26159, 20026, 20102, 25104, 20026, 26356, 22909, 30340,
          33258, 24049, 12290>>
     >>,
     L1145 |-> <<
        \* 1: "虽然今年有些"
        <<34429, 28982, 20170, 24180, 26377, 20123>>,
        \* 2: "的遗憾，但这并不会阻挡你前进的脚步。新的一年，这些未实现的愿望将成为你奋斗的动力。"
        <<30340, 36951, 25022, 65292, 20294, 36825, 24182, 19981, 20250, 38459, 25377, 20320,
          21069, 36827, 30340, 33050, 27493, 12290, 26032, 30340, 19968, 24180, 65292, 36825,
          20123, 26410, 23454, 29616, 30340, 24895, 26395, 23558, 25104, 20026, 20320, 22859,
          26007, 30340, 21160, 21147, 12290>>
     >>,
     L1147 |-> <<
        \* 1: "回顾过去的一年，你或许有过迷茫与困惑，但这些经历都将成为你未来道路上最宝贵的财富。"
        <<22238, 39038, 36807, 21435, 30340, 19968, 24180, 65292, 20320, 25110, 35768, 26377,
          36807, 36855, 33579, 19982, 22256, 24785, 65292, 20294, 36825, 20123, 32463, 21382,
          37117, 23558, 25104, 20026, 20320, 26410, 26469, 36947, 36335, 19978, 26368, 23453,
          36149, 30340, 36130, 23500, 12290>>
     >>,
     L1154 |-> <<
        \* 1: "你的力量来自于"
        <<20320, 30340, 21147, 37327, 26469, 33258, 20110>>,
        \* 2: "。正是这份力量，让你在面对困难时始终保持坚定与勇气。新的一年，愿这份力量继续陪伴着你，勇敢前行。"
        <<12290, 27491, 26159, 36825, 20221, 21147, 37327, 65292, 35753, 20320, 22312, 38754,
          23545, 22256, 38590, 26102, 22987, 32456, 20445, 25345, 22362, 23450, 19982, 21191,
          27668, 12290, 26032, 30340, 19968, 24180, 65292, 24895, 36825, 20221, 21147, 37327,
          32487, 32493, 38506, 20276, 30528, 20320, 65292, 21191, 25954, 21069, 34892, 12290>>
     >>,
     L1156 |-> <<
        \* 1: ""
        <<>>,
        \* 2: "。这是你对过去一年的总结，也是你对未来的承诺。新的一年，愿你带着这份信念，继续书写属于自己的精彩。"
        <<12290, 36825, 26159, 20320, 23545, 36807, 21435, 19968, 24180, 30340, 24635, 32467,
          65292, 20063, 26159, 20320, 23545, 26410, 26469, 30340, 25215, 35834, 12290, 26032,
          30340, 19968, 24180, 65292, 24895, 20320, 24102, 30528, 36825, 20221, 20449, 24565,
          65292, 32487, 32493, 20070, 20889, 23646, 20110, 33258, 24049, 30340, 31934, 24425,
          12290>>
     >>,
     L1158 |-> <<
        \* 1: "无论前方的道路如何曲折，你都将保持初心，坚定前行。新的一年，愿你能收获更多的成长与幸福。"
        <<26080, 35770, 21069, 26041, 30340, 36947, 36335, 22914, 20309, 26354, 25240, 65292,
          20320, 37117, 23558, 20445, 25345, 21021, 24515, 65292, 22362, 23450, 21069, 34892,
          12290, 26032, 30340, 19968, 24180, 65292, 24895, 20320, 33021, 25910, 33719, 26356,
          22810, 30340, 25104, 38271, 19982, 24184, 31119, 12290>>
     >>,
     L1163 |-> <<
        \* 1: "\n\n"
        <<10, 10>>
     >>,
     L1165 |-> <<
        \* 1: "。"
        <<12290>>
     >>,
     L1167 |-> <<
        \* 1: "每一个新的开始，都是一次重新认识自己的机会。"
        <<27599, 19968, 20010, 26032, 30340, 24320, 22987, 65292, 37117, 26159, 19968, 27425,
          37325, 26032, 35748, 35782, 33258, 24049, 30340, 26426, 20250, 12290>>,
        \* 2: "愿你在新的一年里，能够勇敢地追逐自己的梦想。"
        <<24895, 20320, 22312, 26032, 30340, 19968, 24180, 37324, 65292, 33021, 22815, 21191,
          25954, 22320, 36861, 36880, 33258, 24049, 30340, 26790, 24819, 12290>>,
        \* 3: "那些流过的汗水与泪水，都将成为你未来成功的见证。"
        <<37027, 20123, 27969, 36807, 30340, 27735, 27700, 19982, 27882, 27700, 65292, 37117,
          23558, 25104, 20026, 20320, 26410, 26469, 25104, 21151, 30340, 35265, 35777, 12290>>
     >>,
     L1169 |-> <<
        \* 1: "\n\n"
        <<10, 10>>
     >>,
     L1175 |-> <<
        \* 1: "FUTURE"
        <<70, 85, 84, 85, 82, 69>>
     >>,
     L1176 |-> <<
        \* 1: "polaroid"
        <<112, 111, 108, 97, 114, 111, 105, 100>>
     >>]

\* the string literals of the fallback return value
FallbackText ==
    [L1846 |-> <<
        \* 1: "star"
        <<115, 116, 97, 114>>,
        \* 2: "heart"
        <<104, 101, 97, 114, 116>>,
        \* 3: "camera"
        <<99, 97, 109, 101, 114, 97>>,
        \* 4: "book"
        <<98, 111, 111, 107>>,
        \* 5: "music"
        <<109, 117, 115, 105, 99>>
     >>,
     L1847 |-> <<
        \* 1: "岁月如歌流转，\n"
        <<23681, 26376, 22914, 27468, 27969, 36716, 65292, 10>>,
        \* 2: "长明依然。\n回首往事如烟，\n步履不停向前。"
        <<38271, 26126, 20381, 28982, 12290, 10, 22238, 39318, 24448, 20107, 22914, 28895, 65292,
          10, 27493, 23653, 19981, 20572, 21521, 21069, 12290>>
     >>,
     L1848 |-> <<
        \* 1: "这一年，你在生活的舞台上演绎着属于自己的精彩。"
        <<36825, 19968, 24180, 65292, 20320, 22312, 29983, 27963, 30340, 33310, 21488, 19978,
          28436, 32462, 30528, 23646, 20110, 33258, 24049, 30340, 31934, 24425, 12290>>,
        \* 2: "，"
        <<65292>>,
        \* 3: "，"
        <<65292>>,
        \* 4: "，"
        <<65292>>,
        \* 5: "。每一个瞬间都如同一颗璀璨的星辰，在你的生命之河中闪烁着独特的光芒。"
        <<12290, 27599, 19968, 20010, 30636, 38388, 37117, 22914, 21516, 19968, 39063, 29824,
          29864, 30340, 26143, 36784, 65292, 22312, 20320, 30340, 29983, 21629, 20043, 27827,
          20013, 38378, 28865, 30528, 29420, 29305, 30340, 20809, 33426, 12290>>
     >>,
     L1849 |-> <<
        \* 1: "LIFE"
        <<76, 73, 70, 69>>
     >>,
     L1850 |-> <<
        \* 1: "Deer"
        <<68, 101, 101, 114>>
     >>]

\* the alternatives of /(未来|希望|勇气|力量|继续前行)/i
HopeWords == <<<<26410, 26469>>, <<24076, 26395>>, <<21191, 27668>>, <<21147, 37327>>, <<32487, 32493, 21069, 34892>>>>

\* "时光", the default inside the poem template
PoemDefault == <<26102, 20809>>

\* the characters of the class [，。！？]
EndPunct == {65292, 12290, 65281, 65311}

-----------------------------------------------------------------------------
(* generateYearSummary: classification of the answers, unique details      *)

\* str.replace(/[，。！？]$/, "")
StripEndPunct(t) ==
    IF t # << >> /\ t[Len(t)] \in EndPunct THEN Slice(t, 0, Len(t) - 1) ELSE t

\* parts.join(sep)
RECURSIVE Join(_, _)
Join(parts, sep) ==
    IF parts = << >> THEN << >>
    ELSE IF Len(parts) = 1 THEN parts[1]
    ELSE parts[1] \o sep \o Join(Tail(parts), sep)

\* parts.filter(Boolean)
NonEmpty(parts) == SelectSeq(parts, LAMBDA s : s # << >>)

\* t.includes(pats[1]) || t.includes(pats[2]) || ...
IncludesAny(t, pats) == \E k \in DOMAIN pats : Includes(t, pats[k])

\* const answer = answers[q.id] || "Skipped"
answerOrSkipped(answers, q) ==
    IF q.id \in DOMAIN answers /\ answers[q.id] # << >> THEN answers[q.id]
    ELSE CategorizeText.L298[1]

\* a chain that tests the category text only
bucketOf_ByCategoryOnly(q) ==
    IF IncludesAny(q.category, CategorizeText.L302) THEN "journey"
    ELSE IF IncludesAny(q.category, CategorizeText.L304) THEN "emotions"
    ELSE IF IncludesAny(q.category, CategorizeText.L306) THEN "tastes"
    ELSE IF IncludesAny(q.category, CategorizeText.L308) THEN "future"
    ELSE "none"

\* the if / else-if chain of the categorisation loop; "none" when no rule matches
bucketOf(q) ==
    IF q.id \in {1, 5} \/ IncludesAny(q.category, CategorizeText.L302) THEN "journey"
    ELSE IF q.id \in {16, 18, 37, 39} \/ IncludesAny(q.category, CategorizeText.L304)
    THEN "emotions"
    ELSE IF q.id \in {17, 24, 25, 26, 27, 28} \/ IncludesAny(q.category, CategorizeText.L306)
    THEN "tastes"
    ELSE IF q.id \in {6, 19, 32, 40} \/ IncludesAny(q.category, CategorizeText.L308)
    THEN "future"
    ELSE "none"

\* categorizedAnswers after questions.forEach(...)
categorizedAnswers(answers, questions) ==
    [b \in {"journey", "emotions", "tastes", "future"} |->
        LET qs == SelectSeq(questions, LAMBDA q : bucketOf(q) = b)
        IN  [i \in 1..Len(qs) |->
                [question |-> qs[i].text, answer |-> answerOrSkipped(answers, qs[i])]]]

CJK == 19968..40869
Latin == (65..90) \cup (97..122)
NotDQuote == CodeUnit \ {34}
NotSQuote == CodeUnit \ {39}

\* length of the match of /[一-龥]{2,}|"[^"]+"|'[^']+'|[A-Za-z]+/ at
\* offset p, or 0: the alternatives in their order, each quantifier greedy
DetailLenAt(t, p) ==
    LET cjk == RunLen(t, p, CJK)
        dq == RunLen(t, p + 1, NotDQuote)
        sq == RunLen(t, p + 1, NotSQuote)
    IN  IF cjk >= 2 THEN cjk
        ELSE IF t[p + 1] = 34 /\ dq >= 1 /\ p + 1 + dq < Len(t) THEN dq + 2
        ELSE IF t[p + 1] = 39 /\ sq >= 1 /\ p + 1 + sq < Len(t) THEN sq + 2
        ELSE RunLen(t, p, Latin)

\* answer.match(/.../g) || []  from offset p on
RECURSIVE DetailsFrom(_, _)
DetailsFrom(t, p) ==
    IF p >= Len(t) THEN << >>
    ELSE LET n == DetailLenAt(t, p)
         IN  IF n = 0 THEN DetailsFrom(t, p + 1)
             ELSE <<Slice(t, p, p + n)>> \o DetailsFrom(t, p + n)

\* details.forEach(detail => ... uniqueDetails.push(detail))
RECURSIVE pushDetails(_, _)
pushDetails(uniqueDetails, details) ==
    IF details = << >> THEN uniqueDetails
    ELSE LET detail == Head(details)
             known == \E i \in DOMAIN uniqueDetails : uniqueDetails[i] = detail
         IN  pushDetails(IF Len(Trim(detail)) > 1 /\ ~known
                         THEN Append(uniqueDetails, detail) ELSE uniqueDetails,
                         Tail(details))

\* category.forEach(item => ...) from item i on
RECURSIVE detailsOfItems(_, _, _)
detailsOfItems(uniqueDetails, items, i) ==
    IF i > Len(items) THEN uniqueDetails
    ELSE LET answer == items[i].answer
         IN  detailsOfItems(
                 IF answer # CategorizeText.L298[1] /\ Len(Trim(answer)) > 0
                 THEN pushDetails(uniqueDetails, DetailsFrom(answer, 0))
                 ELSE uniqueDetails,
                 items, i + 1)

\* const uniqueDetails = []; Object.values(categorizedAnswers).forEach(...)
uniqueDetailsOf(categorized) ==
    detailsOfItems(detailsOfItems(detailsOfItems(detailsOfItems(<< >>,
        categorized["journey"], 1), categorized["emotions"], 1),
        categorized["tastes"], 1), categorized["future"], 1)

-----------------------------------------------------------------------------
(* The fallback cards.  Math.floor(Math.random() * n) is a draw from        *)
(* 0..n-1: `pool` for the title pool of 8, `pick` for a list of 3 titles,   *)
(* `closing` for the 3 closing lines.                                      *)

\* answers.filter(a => a.answer !== "Skipped" && a.answer.trim().length > 0)
validAnswersOf(answers, skipped) ==
    SelectSeq(answers, LAMBDA a : a.answer # skipped /\ Len(Trim(a.answer)) > 0)

\* validAnswers.find(a => a.question.includes(..) || ..)?.answer || ""
findAnswer(validAnswers, pats) ==
    LET hits == {i \in DOMAIN validAnswers : IncludesAny(validAnswers[i].question, pats)}
    IN  IF hits = {} THEN << >> ELSE validAnswers[Min(hits)].answer

\* the expansion appended to a short content: the first that keeps it within
\* max, the first of all when none does
expansionFor(expansions, fits) ==
    IF fits = {} THEN expansions[1] ELSE expansions[Min(fits)]

\* if (content.length > max) ... else if (content.length < min) ...  (the same
\* statement closes each of the four generators, with its own numbers and texts)
adjustLength(content, max, min, dot, sep, expansions) ==
    IF Len(content) > max THEN StripEndPunct(Slice(content, 0, max)) \o dot
    ELSE IF Len(content) < min
    THEN content \o sep \o
         expansionFor(expansions,
             {k \in DOMAIN expansions : Len(content) + Len(expansions[k]) <= max})
    ELSE content

\* { title, content, keyword, style }
Card(title, content, keyword, style) ==
    JObj([title |-> JStr(title), content |-> JStr(content),
          keyword |-> JStr(keyword), style |-> JStr(style)])


\* a || b for strings
OrElse(a, b) == IF a # << >> THEN a ELSE b

\* the title and the content of card 1 before the length adjustment, from the
\* answers found for its slots
card1Compose(validAnswers, q1Answer, q5Answer, q7Answer, q8Answer, selfDiscovery, draw) ==
    LET T == Card1Text
        S(t) == StripEndPunct(t)
        title ==
            IF q5Answer # << >> THEN T.L857[draw.pick + 1]
            ELSE IF q8Answer # << >> THEN T.L859[draw.pick + 1]
            ELSE IF q1Answer # << >> THEN T.L861[draw.pick + 1]
            ELSE IF selfDiscovery # << >> THEN T.L863[draw.pick + 1]
            ELSE T.L852[draw.pool + 1]
        firstParagraph ==
            IF q1Answer # << >> /\ q5Answer # << >>
            THEN T.L872[1] \o S(q1Answer) \o T.L872[2] \o S(q5Answer) \o T.L872[3]
            ELSE IF q1Answer # << >> THEN T.L874[1] \o S(q1Answer) \o T.L874[2]
            ELSE IF q5Answer # << >> THEN T.L876[1] \o S(q5Answer) \o T.L876[2]
            ELSE T.L878[1]
        secondParagraph ==
            IF q8Answer # << >> /\ selfDiscovery # << >>
            THEN T.L886[1] \o S(q8Answer) \o T.L886[2] \o S(selfDiscovery) \o T.L886[3]
            ELSE IF q8Answer # << >> THEN T.L888[1] \o S(q8Answer) \o T.L888[2]
            ELSE IF selfDiscovery # << >> THEN T.L891[1] \o S(selfDiscovery) \o T.L891[2]
            ELSE T.L893[1]
        paragraphs(two) ==
            IF q7Answer # << >> /\ Len(Join(two, << >>)) < 120
            THEN Append(two, T.L900[1] \o S(q7Answer) \o T.L900[2])
            ELSE two
        closed(joined) ==
            IF ~IncludesAny(joined, HopeWords)
            THEN joined \o T.L908[1] \o T.L907[draw.closing + 1]
            ELSE joined
    IN  [valid |-> validAnswers # << >>,
         title |-> title,
         content |-> closed(Join(paragraphs(<<firstParagraph, secondParagraph>>),
                                 T.L905[1]))]

\* generateCard1 up to the length adjustment: the valid answers, the answer found
\* for each slot, and the text composed from them
card1Draft(validAnswers, draw) ==
    card1Compose(validAnswers,
        findAnswer(validAnswers, Card1Text.L844), findAnswer(validAnswers, Card1Text.L845),
        findAnswer(validAnswers, Card1Text.L846), findAnswer(validAnswers, Card1Text.L847),
        OrElse(findAnswer(validAnswers, Card1Text.L848),
               findAnswer(validAnswers, Card1Text.L849)), draw)

\* const generateCard1 = (answers) => ...
generateCard1(answers, draw) ==
    LET T == Card1Text
        finish(draft) ==
            IF ~draft.valid THEN Card(T.L841[1], T.L841[2], T.L841[3], T.L841[4])
            ELSE Card(draft.title,
                      adjustLength(draft.content, 150, 120, T.L913[1], T.L917[1], T.L915),
                      T.L923[1], T.L924[1])
    IN  finish(card1Draft(validAnswersOf(answers, T.L840[1]), draw))

\* the title and the content of card 2 before the length adjustment, from the
\* answers found for its slots
card2Compose(validAnswers, q3Answer, q4Answer, q13Answer, q22Answer, q37Answer, q38Answer, draw) ==
    LET T == Card2Text
        S(t) == StripEndPunct(t)
        title ==
            IF q37Answer # << >> THEN T.L946[draw.pick + 1]
            ELSE IF q13Answer # << >> THEN T.L948[draw.pick + 1]
            ELSE IF Includes(q22Answer, T.L949[1]) THEN T.L950[draw.pick + 1]
            ELSE T.L941[draw.pool + 1]
        firstParagraph ==
            IF q13Answer # << >> /\ q3Answer # << >>
            THEN T.L959[1] \o S(q3Answer) \o T.L959[2] \o S(q13Answer) \o T.L959[3]
            ELSE IF q13Answer # << >> THEN T.L961[1] \o S(q13Answer) \o T.L961[2]
            ELSE IF q3Answer # << >> THEN T.L963[1] \o S(q3Answer) \o T.L963[2]
            ELSE IF Includes(q22Answer, T.L964[1])
            THEN T.L965[1] \o S(q22Answer) \o T.L965[2]
            ELSE T.L967[1]
        secondParagraph ==
            IF q37Answer # << >> THEN T.L974[1] \o S(q37Answer) \o T.L974[2]
            ELSE IF q38Answer # << >> THEN T.L976[1] \o S(q38Answer) \o T.L976[2]
            ELSE IF q4Answer # << >> /\ IncludesAny(q4Answer, T.L977) THEN T.L978[1]
            ELSE T.L980[1]
    IN  [valid |-> validAnswers # << >>,
         title |-> title,
         content |-> Join(<<firstParagraph, secondParagraph>>, T.L985[1])]

\* generateCard2 up to the length adjustment: the valid answers, the answer found
\* for each slot, and the text composed from them
card2Draft(validAnswers, draw) ==
    card2Compose(validAnswers,
        findAnswer(validAnswers, Card2Text.L933), findAnswer(validAnswers, Card2Text.L934),
        findAnswer(validAnswers, Card2Text.L935), findAnswer(validAnswers, Card2Text.L936),
        findAnswer(validAnswers, Card2Text.L937), findAnswer(validAnswers, Card2Text.L938), draw)

\* const generateCard2 = (answers) => ...
generateCard2(answers, draw) ==
    LET T == Card2Text
        finish(draft) ==
            IF ~draft.valid THEN Card(T.L930[1], T.L930[2], T.L930[3], T.L930[4])
            ELSE Card(draft.title,
                      adjustLength(draft.content, 130, 100, T.L987[1], T.L991[1], T.L989),
                      T.L997[1], T.L998[1])
    IN  finish(card2Draft(validAnswersOf(answers, T.L929[1]), draw))

\* the title and the content of card 3 before the length adjustment, from the
\* answers found for its slots
card3Compose(validAnswers, q12Answer, q15Answer, q21Answer, q24Answer, q25Answer, q26Answer, q27Answer, q31Answer, q33Answer, draw) ==
    LET T == Card3Text
        S(t) == StripEndPunct(t)
        cultural == NonEmpty(<<q24Answer, q25Answer, q26Answer>>)
        title ==
            IF q27Answer # << >> THEN T.L1023[draw.pick + 1]
            ELSE IF q24Answer # << >> \/ q26Answer # << >> THEN T.L1025[draw.pick + 1]
            ELSE IF q33Answer # << >> THEN T.L1027[draw.pick + 1]
            ELSE T.L1018[draw.pool + 1]
        firstParagraph ==
            IF cultural # << >> /\ q21Answer # << >>
            THEN T.L1037[1] \o S(q21Answer) \o T.L1037[2]
                     \o S(Join(cultural, T.L1036[1])) \o T.L1037[3]
            ELSE IF cultural # << >>
            THEN T.L1040[1] \o S(Join(cultural, T.L1039[1])) \o T.L1040[2]
            ELSE IF q21Answer # << >> THEN T.L1042[1] \o S(q21Answer) \o T.L1042[2]
            ELSE T.L1044[1]
        secondParagraph ==
            IF q27Answer # << >> /\ q33Answer # << >>
            THEN T.L1051[1] \o S(q27Answer) \o T.L1051[2] \o S(q33Answer) \o T.L1051[3]
            ELSE IF q27Answer # << >> THEN T.L1053[1] \o S(q27Answer) \o T.L1053[2]
            ELSE IF q33Answer # << >> THEN T.L1055[1] \o S(q33Answer) \o T.L1055[2]
            ELSE IF q12Answer # << >> \/ q15Answer # << >>
            THEN T.L1058[1] \o S(Join(NonEmpty(<<q12Answer, q15Answer>>), T.L1057[1]))
                     \o T.L1058[2]
            ELSE T.L1060[1]
        paragraphs(two) ==
            IF q31Answer # << >> /\ Len(Join(two, << >>)) < 100
            THEN Append(two, T.L1067[1] \o S(q31Answer) \o T.L1067[2])
            ELSE two
    IN  [valid |-> validAnswers # << >>,
         title |-> title,
         content |-> Join(paragraphs(<<firstParagraph, secondParagraph>>), T.L1072[1])]

\* generateCard3 up to the length adjustment: the valid answers, the answer found
\* for each slot, and the text composed from them
card3Draft(validAnswers, draw) ==
    card3Compose(validAnswers,
        findAnswer(validAnswers, Card3Text.L1007), findAnswer(validAnswers, Card3Text.L1008),
        findAnswer(validAnswers, Card3Text.L1009), findAnswer(validAnswers, Card3Text.L1010),
        findAnswer(validAnswers, Card3Text.L1011), findAnswer(validAnswers, Card3Text.L1012),
        findAnswer(validAnswers, Card3Text.L1013), findAnswer(validAnswers, Card3Text.L1014),
        findAnswer(validAnswers, Card3Text.L1015), draw)

\* const generateCard3 = (answers) => ...
generateCard3(answers, draw) ==
    LET T == Card3Text
        finish(draft) ==
            IF ~draft.valid THEN Card(T.L1004[1], T.L1004[2], T.L1004[3], T.L1004[4])
            ELSE Card(draft.title,
                      adjustLength(draft.content, 140, 110, T.L1074[1], T.L1078[1], T.L1076),
                      T.L1084[1], T.L1085[1])
    IN  finish(card3Draft(validAnswersOf(answers, T.L1003[1]), draw))

\* the title and the content of card 4 before the length adjustment, from the
\* answers found for its slots
card4Compose(validAnswers, q6Answer, q19Answer, q20Answer, q30Answer, q32Answer, q34Answer, q40Answer, draw) ==
    LET T == Card4Text
        S(t) == StripEndPunct(t)
        title ==
            IF q6Answer # << >> \/ q32Answer # << >> THEN T.L1108[draw.pick + 1]
            ELSE IF q30Answer # << >> THEN T.L1110[draw.pick + 1]
            ELSE IF q19Answer # << >> \/ q20Answer # << >> THEN T.L1112[draw.pick + 1]
            ELSE T.L1103[draw.pool + 1]
        firstParagraph ==
            IF q6Answer # << >> THEN T.L1121[1] \o S(q6Answer) \o T.L1121[2]
            ELSE IF q32Answer # << >> THEN T.L1123[1] \o S(q32Answer) \o T.L1123[2]
            ELSE T.L1125[1]
        secondParagraph ==
            IF q19Answer # << >> /\ q20Answer # << >>
            THEN T.L1132[1] \o S(q19Answer) \o T.L1132[2] \o S(q20Answer) \o T.L1132[3]
            ELSE IF q19Answer # << >> THEN T.L1134[1] \o S(q19Answer) \o T.L1134[2]
            ELSE IF q20Answer # << >> THEN T.L1136[1] \o S(q20Answer) \o T.L1136[2]
            ELSE T.L1138[1]
        thirdParagraph ==
            IF q30Answer # << >> THEN T.L1145[1] \o S(q30Answer) \o T.L1145[2]
            ELSE T.L1147[1]
        fourthParagraph ==
            IF q34Answer # << >> THEN T.L1154[1] \o S(q34Answer) \o T.L1154[2]
            ELSE IF q40Answer # << >> THEN T.L1156[1] \o S(q40Answer) \o T.L1156[2]
            ELSE T.L1158[1]
    IN  [valid |-> validAnswers # << >>,
         title |-> title,
         content |-> Join(<<firstParagraph, secondParagraph, thirdParagraph,
                            fourthParagraph>>,
                          T.L1163[1])]

\* generateCard4 up to the length adjustment: the valid answers, the answer found
\* for each slot, and the text composed from them
card4Draft(validAnswers, draw) ==
    card4Compose(validAnswers,
        findAnswer(validAnswers, Card4Text.L1094), findAnswer(validAnswers, Card4Text.L1095),
        findAnswer(validAnswers, Card4Text.L1096), findAnswer(validAnswers, Card4Text.L1097),
        findAnswer(validAnswers, Card4Text.L1098), findAnswer(validAnswers, Card4Text.L1099),
        findAnswer(validAnswers, Card4Text.L1100), draw)

\* a generator without the early return of the generic card
generateCard4_NeverGeneric(answers, draw) ==
    LET T == Card4Text
        finish(draft) ==
            Card(draft.title,
                 adjustLength(draft.content, 180, 140, T.L1165[1], T.L1169[1], T.L1167),
                 T.L1175[1], T.L1176[1])
    IN  finish(card4Draft(validAnswersOf(answers, T.L1090[1]), draw))

\* const generateCard4 = (answers) => ...
generateCard4(answers, draw) ==
    LET T == Card4Text
        finish(draft) ==
            IF ~draft.valid THEN Card(T.L1091[1], T.L1091[2], T.L1091[3], T.L1091[4])
            ELSE Card(draft.title,
                      adjustLength(draft.content, 180, 140, T.L1165[1], T.L1169[1], T.L1167),
                      T.L1175[1], T.L1176[1])
    IN  finish(card4Draft(validAnswersOf(answers, T.L1090[1]), draw))

\* text.toUpperCase(), for text of ASCII letters and characters without case
ToUpper(t) == [i \in DOMAIN t |-> IF t[i] \in 97..122 THEN t[i] - 32 ELSE t[i]]

\* the returned object with the cards of emotions and tastes exchanged
fallbackSummary_Reordered(uniqueDetails, card1, card2, card3, card4) ==
    LET T == FallbackText
        extractedKeywords == Slice(uniqueDetails, 0, 5)
        first == IF extractedKeywords = << >> THEN << >> ELSE extractedKeywords[1]
        strings(ts) == JArr([i \in DOMAIN ts |-> JStr(ts[i])])
    IN  JObj([cards |-> JArr(<<card1, card3, card2, card4>>),
              visualTags |-> IF Len(extractedKeywords) > 0 THEN strings(extractedKeywords)
                             ELSE strings(T.L1846),
              poem |-> JStr(T.L1847[1] \o (IF first # << >> THEN first ELSE PoemDefault)
                                \o T.L1847[2]),
              analysis |-> JStr(T.L1848[1] \o card1.f.content.s \o T.L1848[2]
                                    \o card2.f.content.s \o T.L1848[3]
                                    \o card3.f.content.s \o T.L1848[4]
                                    \o card4.f.content.s \o T.L1848[5]),
              keyword |-> JStr(IF ToUpper(first) # << >> THEN ToUpper(first) ELSE T.L1849[1]),
              animal |-> JStr(T.L1850[1])])

\* the object returned at the end of the catch block
fallbackSummary(uniqueDetails, card1, card2, card3, card4) ==
    LET T == FallbackText
        extractedKeywords == Slice(uniqueDetails, 0, 5)
        first == IF extractedKeywords = << >> THEN << >> ELSE extractedKeywords[1]
        strings(ts) == JArr([i \in DOMAIN ts |-> JStr(ts[i])])
    IN  JObj([cards |-> JArr(<<card1, card2, card3, card4>>),
              visualTags |-> IF Len(extractedKeywords) > 0 THEN strings(extractedKeywords)
                             ELSE strings(T.L1846),
              poem |-> JStr(T.L1847[1] \o (IF first # << >> THEN first ELSE PoemDefault)
                                \o T.L1847[2]),
              analysis |-> JStr(T.L1848[1] \o card1.f.content.s \o T.L1848[2]
                                    \o card2.f.content.s \o T.L1848[3]
                                    \o card3.f.content.s \o T.L1848[4]
                                    \o card4.f.content.s \o T.L1848[5]),
              keyword |-> JStr(IF ToUpper(first) # << >> THEN ToUpper(first) ELSE T.L1849[1]),
              animal |-> JStr(T.L1850[1])])

\* the draws of one generator call
Draws == [pool : 0..7, pick : 0..2, closing : 0..2]
TitleDraws == {d \in Draws : d.closing = 0}

\* the summaries the catch block can return for categorised answers, one for
\* each outcome of the Math.random() calls
fallbackOutcomes(categorized, uniqueDetails) ==
    {fallbackSummary(uniqueDetails, card1, card2, card3, card4) :
        card1 \in {generateCard1(categorized["journey"], d) : d \in Draws},
        card2 \in {generateCard2(categorized["emotions"], d) : d \in TitleDraws},
        card3 \in {generateCard3(categorized["tastes"], d) : d \in TitleDraws},
        card4 \in {generateCard4(categorized["future"], d) : d \in TitleDraws}}

\* the catch block from the categorised answers on
fallbackFrom(categorized) == fallbackOutcomes(categorized, uniqueDetailsOf(categorized))

\* the summaries the catch block can return for these answers
fallbackSummaries(answers, questions) ==
    fallbackFrom(categorizedAnswers(answers, questions))

-----------------------------------------------------------------------------
(* Inputs and remote behaviours of the summary model *)

\* "Tokyo" (5)
TxtTokyo == <<84, 111, 107, 121, 111>>
\* "京都。" (3)
TxtKyoto == <<20140, 37117, 12290>>
\* "我从北京出发，一路向南，去了上海、杭州、厦门和广州，最后在三亚的海边住了整整一个月，看了很多次日出和日落" (52)
TxtLongTrip ==
    <<25105, 20174, 21271, 20140, 20986, 21457, 65292, 19968, 36335, 21521, 21335, 65292, 21435,
      20102, 19978, 28023, 12289, 26477, 24030, 12289, 21414, 38376, 21644, 24191, 24030, 65292,
      26368, 21518, 22312, 19977, 20122, 30340, 28023, 36793, 20303, 20102, 25972, 25972, 19968,
      20010, 26376, 65292, 30475, 20102, 24456, 22810, 27425, 26085, 20986, 21644, 26085,
      33853>>
\* "希望之城" (4)
TxtHopeCity == <<24076, 26395, 20043, 22478>>
\* "  " (2)
TxtSpaces == <<32, 32>>
\* "潜水" (2)
TxtDiving == <<28508, 27700>>
\* "家人的爱" (4)
TxtFamilyLove == <<23478, 20154, 30340, 29233>>
\* "三体" (2)
TxtThreeBody == <<19977, 20307>>
\* "火锅！" (3)
TxtHotpot == <<28779, 38149, 65281>>
\* "a dog" (5)
TxtADog == <<97, 32, 100, 111, 103>>
\* "平凡而充实的一年" (8)
TxtPlainYear == <<24179, 20961, 32780, 20805, 23454, 30340, 19968, 24180>>
\* "note" (4)
TxtNote == <<110, 111, 116, 101>>
\* the JSON text "a```b" with its quotes (7)
TxtFenceInside == <<34, 97, BACKTICK, BACKTICK, BACKTICK, 98, 34>>

\* the answers of one bucket's questions, one choice for each bucket
JourneyAnswers ==
    {EmptyAnswers, 5 :> TxtTokyo, 5 :> TxtKyoto, 5 :> TxtLongTrip, 5 :> TxtHopeCity}
EmotionAnswers == {EmptyAnswers, 22 :> TxtFamilyLove}
TasteAnswers == {EmptyAnswers, (25 :> TxtThreeBody) @@ (28 :> TxtHotpot)}
FutureAnswers == {EmptyAnswers, (6 :> TxtADog) @@ (40 :> TxtPlainYear)}

\* AnswerStores: the combinations of the above, and stores with a blank answer,
\* a skipped answer (""), the text "Skipped", an answer no slot takes, and an
\* answer to a question of no bucket
SummaryAnswers ==
    {j @@ e @@ t @@ f : j \in JourneyAnswers, e \in EmotionAnswers,
                        t \in TasteAnswers, f \in FutureAnswers}
    \cup {5 :> TxtSpaces, 5 :> << >>, 5 :> CategorizeText.L298[1], 1 :> TxtDiving,
          2 :> TxtNote}

SummaryInputs == [answers : SummaryAnswers]

\* message contents the summary request can be answered with
SummaryContents ==
    {CNull, CStr(TxtOops), CStr(FenceJson \o <<NL>> \o Doc(10) \o <<NL>> \o Fence),
     CStr(Doc(8)), CStr(TxtFenceInside),
     CStr(FenceJson \o <<NL>> \o TxtFenceInside \o <<NL>> \o Fence)}
    \cup {CStr(Doc(k)) : k \in 10..16}

\* fallbackSummaries(answers, QUESTIONS) for each AnswerStore of the model,
\* computed once
FallbackTable == [a \in SummaryAnswers |-> fallbackSummaries(a, QUESTIONS)]

-----------------------------------------------------------------------------
(* SpecSummary: one call of generateYearSummary(answers, QUESTIONS)        *)

InitSummary ==
    /\ fn = "generateYearSummary"
    /\ pc = "idle"
    /\ input \in SummaryInputs
    /\ env \in Envs
    /\ remote = NoRemote
    /\ outcome = Pending
    /\ client = NoClient
    /\ ui = NoUI

\* a call that lets the error of getClient reach its caller
SummaryCall_Surfacing ==
    /\ fn = "generateYearSummary"
    /\ pc = "idle"
    /\ LET got == getClient(env, client)
       IN  IF got.threw
           THEN /\ outcome' = Rejected("Missing OpenAI API key")
                /\ pc' = "done"
                /\ remote' = [kind |-> "nokey"]
                /\ UNCHANGED client
           ELSE /\ pc' = "await"
                /\ client' = got.client
                /\ UNCHANGED <<remote, outcome>>
    /\ UNCHANGED <<fn, input, env, ui>>

\* the call up to its first await: a missing API key makes getClient throw
\* inside the try block, otherwise the request is sent
SummaryCall ==
    /\ fn = "generateYearSummary"
    /\ pc = "idle"
    /\ LET got == getClient(env, client)
       IN  IF got.threw
           THEN /\ \E summary \in FallbackTable[input.answers] :
                      outcome' = Resolved(summary)
                /\ pc' = "done"
                /\ remote' = [kind |-> "nokey"]
                /\ UNCHANGED client
           ELSE /\ pc' = "await"
                /\ client' = got.client
                /\ UNCHANGED <<remote, outcome>>
    /\ UNCHANGED <<fn, input, env, ui>>

\* a call without the catch block: the rejection reaches the caller
SummaryRemoteReject_Rethrow ==
    /\ fn = "generateYearSummary"
    /\ pc = "await"
    /\ remote' = [kind |-> "error"]
    /\ outcome' = Rejected("transport")
    /\ pc' = "done"
    /\ UNCHANGED <<fn, input, env, client, ui>>

\* chat.completions.create rejects: the catch block returns the fallback
SummaryRemoteReject ==
    /\ fn = "generateYearSummary"
    /\ pc = "await"
    /\ remote' = [kind |-> "error"]
    /\ \E summary \in FallbackTable[input.answers] :
          outcome' = Resolved(summary)
    /\ pc' = "done"
    /\ UNCHANGED <<fn, input, env, client, ui>>

\* chat.completions.create resolves with a message content: the parsed JSON is
\* returned as it is; no text, or text JSON.parse rejects, throws into the catch
SummaryRemoteRespond ==
    /\ fn = "generateYearSummary"
    /\ pc = "await"
    /\ \E content \in SummaryContents :
          LET jsonText == cleanJsonString(getTextFromContent(content))
              parsed == JSONparse(jsonText)
          IN  /\ remote' = [kind |-> "ok", content |-> content]
              /\ IF jsonText # << >> /\ parsed.ok
                 THEN outcome' = Resolved(parsed.value)
                 ELSE \E summary \in FallbackTable[input.answers] :
                          outcome' = Resolved(summary)
    /\ pc' = "done"
    /\ UNCHANGED <<fn, input, env, client, ui>>

NextSummary == SummaryCall \/ SummaryRemoteReject \/ SummaryRemoteRespond

SpecSummary == InitSummary /\ [][NextSummary]_vars

SummaryDone == fn = "generateYearSummary" /\ pc = "done"

-----------------------------------------------------------------------------
(* Claims about generateYearSummary *)

\* the catch block ran: no API key, a rejected request, no response text, or
\* response text that JSON.parse rejects
FallbackTaken ==
    /\ SummaryDone
    /\ \/ remote.kind \in {"nokey", "error"}
       \/ /\ remote.kind = "ok"
          /\ ResponseText = << >> \/ ~JSONparse(ResponseText).ok

\* the cards of the summary the call resolved with
CardsOf(v) == v.f.cards.a
ContentOf(v, k) == v.f.cards.a[k].f.content.s

HasStrings(v, names) ==
    /\ v.t = "obj"
    /\ \A n \in names : n \in DOMAIN v.f /\ v.f[n].t = "str"

\* interface YearSummary of types.ts, with exactly four cards
SchemaValid(v) ==
    /\ HasStrings(v, {"poem", "analysis", "keyword", "animal"})
    /\ {"cards", "visualTags"} \subseteq DOMAIN v.f
    /\ v.f.visualTags.t = "arr"
    /\ \A i \in DOMAIN v.f.visualTags.a : v.f.visualTags.a[i].t = "str"
    /\ v.f.cards.t = "arr"
    /\ Len(v.f.cards.a) = 4
    /\ \A i \in DOMAIN v.f.cards.a :
          /\ HasStrings(v.f.cards.a[i], {"title", "content", "keyword", "style"})
          /\ v.f.cards.a[i].f.style.s \in Styles

\* C1: every YearSummary generateYearSummary resolves with is complete and
\* schema-valid (four cards with title, content, keyword and a style of the
\* enumeration, visualTags, poem, analysis, keyword, animal), whatever text the
\* remote model returned.
C1_AlwaysSchemaValid ==
    (SummaryDone /\ outcome.kind = "resolved") => SchemaValid(outcome.value)

\* the remote call failed, or its response was empty or not valid JSON
RemoteUnusable ==
    /\ SummaryDone
    /\ \/ remote.kind = "error"
       \/ /\ remote.kind = "ok"
          /\ ResponseText = << >> \/ ~JSONparse(ResponseText).ok

BucketKeywords ==
    <<<<71, 82, 79, 87, 84, 72>>, <<69, 77, 79, 84, 73, 79, 78, 83>>,
      <<84, 65, 83, 84, 69, 83>>, <<70, 85, 84, 85, 82, 69>>>>

\* C3: the fallback summary has exactly 4 cards, for journey, emotions, tastes
\* and future in this order: their styles are ticket, paper, note, polaroid and
\* their keywords GROWTH, EMOTIONS, TASTES, FUTURE.
C3_FourCardsInOrder ==
    FallbackTaken =>
        LET cards == CardsOf(outcome.value)
        IN  /\ Len(cards) = 4
            /\ [k \in 1..4 |-> cards[k].f.style.s]
                   = <<StyleTicket, StylePaper, StyleNote, StylePolaroid>>
            /\ [k \in 1..4 |-> cards[k].f.keyword.s] = BucketKeywords

C3_Witness ==
    /\ FallbackTaken
    /\ input.answers = EmptyAnswers
    /\ remote.kind = "error"
    /\ Len(CardsOf(outcome.value)) = 4

\* the configured content lengths of the four cards
CardMin == <<120, 100, 110, 140>>
CardMax == <<150, 130, 140, 180>>

\* C4: the content length of each fallback card lies between its bucket's
\* minimum and maximum (journey 120..150, emotions 100..130, tastes 110..140,
\* future 140..180), for the generic card and for a composed card alike.
C4_ContentLengthInRange ==
    FallbackTaken =>
        \A k \in 1..4 :
            /\ Len(ContentOf(outcome.value, k)) >= CardMin[k]
            /\ Len(ContentOf(outcome.value, k)) <= CardMax[k]

\* the drafts of the four cards for each AnswerStore of the model and each draw,
\* computed once
DraftTable ==
    [a \in SummaryAnswers |->
        LET categorized == categorizedAnswers(a, QUESTIONS)
            valid(bucket) == validAnswersOf(categorized[bucket], CategorizeText.L298[1])
        IN  [draw \in Draws |->
                <<card1Draft(valid("journey"), draw),
                  card2Draft(valid("emotions"), draw),
                  card3Draft(valid("tastes"), draw),
                  card4Draft(valid("future"), draw)>>]]

\* the draft of card k for the answers of the call, under one draw
DraftOf(k, draw) == DraftTable[input.answers][draw][k]

\* 。！？
SentenceEnd == {12290, 65281, 65311}

\* C5: a composed card content longer than its bucket's maximum is truncated to
\* at most the maximum, ends with a sentence-ending punctuation mark, and is the
\* composed text cut just after one of its sentence-ending punctuation marks.
C5_TruncatedAtSentenceEnd ==
    FallbackTaken =>
        \A k \in 1..4 : \A draw \in Draws :
            LET draft == DraftOf(k, draw)
                content == ContentOf(outcome.value, k)
                n == Len(content)
            IN  (/\ draft.valid
                 /\ Len(draft.content) > CardMax[k]
                 /\ StripEndPunct(Slice(draft.content, 0, CardMax[k]))
                        = Slice(content, 0, n - 1)) =>
                    /\ n <= CardMax[k]
                    /\ content[n] \in SentenceEnd
                    /\ content = Slice(draft.content, 0, n)

-----------------------------------------------------------------------------
(* Claims about the list conversion of extractAnswersFromData *)

\* the list of the extraction response of this state
ResponseList == Prop(JSONparse(ResponseText).value, "list")

\* the remote answered with JSON whose list is an array
HasListResponse ==
    /\ ExtractDone
    /\ remote.kind = "ok"
    /\ ResponseText # << >>
    /\ JSONparse(ResponseText).ok
    /\ ResponseList.t = "arr"

\* a list entry has both an id and an answer
Complete(item) == Truthy(Prop(item, "id")) /\ Truthy(Prop(item, "answer"))

\* the store that maps each id to the answer of the last complete entry with
\* that id
LastWriteWins(items) ==
    LET complete == {i \in DOMAIN items : Complete(items[i])}
        key(i) == PropKey(Prop(items[i], "id"))
    IN  [k \in {key(i) : i \in complete} |->
            JsString(Prop(items[Max({i \in complete : key(i) = k})], "answer"))]

\* C11: the AnswerStore built from a remote extraction list maps each id to the
\* answer of the last entry with that id among the entries that have both an id
\* and an answer; entries with a missing id or a missing answer contribute
\* nothing and never erase an earlier entry.
C11_LastWriteWins ==
    HasListResponse => outcome = Resolved(LastWriteWins(ResponseList.a))

-----------------------------------------------------------------------------
(* Claims about the fallback summary *)

\* C12: the fallback summary is reproducible: any other fallback construction
\* for the same AnswerStore and question list yields the summary this call
\* returned.
C12_Reproducible ==
    FallbackTaken => \A other \in FallbackTable[input.answers] : other = outcome.value

\* the buckets in the order of their cards
BucketNames == <<"journey", "emotions", "tastes", "future">>

\* the object each generator returns when no valid answer is left
GenericCards ==
    <<Card(Card1Text.L841[1], Card1Text.L841[2], Card1Text.L841[3], Card1Text.L841[4]),
      Card(Card2Text.L930[1], Card2Text.L930[2], Card2Text.L930[3], Card2Text.L930[4]),
      Card(Card3Text.L1004[1], Card3Text.L1004[2], Card3Text.L1004[3], Card3Text.L1004[4]),
      Card(Card4Text.L1091[1], Card4Text.L1091[2], Card4Text.L1091[3], Card4Text.L1091[4])>>

\* a text of white space only
Blank(t) == \A i \in DOMAIN t : IsWs(t[i])

\* a question of the bucket has a stored answer that is not blank and is not
\* the text "Skipped"
BucketAnswered(answers, bucket) ==
    \E i \in DOMAIN QUESTIONS :
        /\ bucketOf(QUESTIONS[i]) = bucket
        /\ QUESTIONS[i].id \in DOMAIN answers
        /\ ~Blank(answers[QUESTIONS[i].id])
        /\ answers[QUESTIONS[i].id] # CategorizeText.L298[1]

DetailsTable ==
    [a \in SummaryAnswers |-> uniqueDetailsOf(categorizedAnswers(a, QUESTIONS))]

\* the unique-detail tokens of the answers of the call
UniqueDetails == DetailsTable[input.answers]

\* the strings of a JSON array of strings
StringsOf(v) == [i \in DOMAIN v.a |-> v.a[i].s]

\* C14: a fallback summary has between 5 and 8 visualTags: the first entries of
\* the unique-detail token list, or the fixed generic set when there is no token.
C14_FiveToEightTags ==
    FallbackTaken =>
        LET tags == StringsOf(outcome.value.f.visualTags)
        IN  /\ Len(tags) \in 5..8
            /\ IF UniqueDetails = << >> THEN tags = FallbackText.L1846
               ELSE tags = Slice(UniqueDetails, 0, Len(tags))

-----------------------------------------------------------------------------
(* getInspiration *)

\* the characters of the class ["“”]
QuoteChars == {34, 8220, 8221}

\* "闭上眼睛，答案就在呼吸之间..." (16)
EmptyHint ==
    <<38381, 19978, 30524, 30555, 65292, 31572, 26696, 23601, 22312, 21628, 21560, 20043, 38388,
      46, 46, 46>>
\* "听听心底的声音..." (10)
ErrorHint == <<21548, 21548, 24515, 24213, 30340, 22768, 38899, 46, 46, 46>>

\* response.choices[0]?.message?.content || ""
firstContent(response) ==
    IF response.choices = << >> THEN CStr(<< >>)
    ELSE IF response.choices[1].t = "null" THEN CStr(<< >>)
    ELSE response.choices[1]

\* text.replace(/["“”]/g, "") without the || that follows it
hintOf_NoPlaceholder(response) ==
    SelectSeq(getTextFromContent(firstContent(response)), LAMBDA c : c \notin QuoteChars)

\* the try block after the await:
\*   const text = getTextFromContent(response.choices[0]?.message?.content || "");
\*   return text.replace(/["“”]/g, "") || "闭上眼睛，答案就在呼吸之间...";
hintOf(response) ==
    LET stripped == SelectSeq(getTextFromContent(firstContent(response)),
                              LAMBDA c : c \notin QuoteChars)
    IN  IF stripped # << >> THEN stripped ELSE EmptyHint

\* "深呼吸" in curly quotes (5)
TxtBreathe == <<8220, 28145, 21628, 21560, 8221>>
\* "想想那个夏天" (6)
TxtSummer == <<24819, 24819, 37027, 20010, 22799, 22825>>
\* say "hi" (8)
TxtSayHi == <<115, 97, 121, 32, 34, 104, 105, 34>>
\* two double quotes (2)
TxtQuotes == <<34, 34>>

\* the responses the inspiration request can be answered with
InspireResponses ==
    {[choices |-> << >>]}
        \cup {[choices |-> <<c>>] :
                c \in {CNull, CStr(<< >>), CStr(TxtQuotes), CStr(TxtBreathe), CStr(TxtSpaces),
                       CStr(TxtSummer), CStr(TxtSayHi),
                       CParts(<<[type |-> "text", text |-> TxtBreathe]>>),
                       CParts(<<[type |-> "image_url", text |-> << >>]>>),
                       CParts(<<[type |-> "text", text |-> TxtSayHi],
                                [type |-> "text", text |-> TxtQuotes]>>)}}

InspireInputs == [question : {QUESTIONS[i] : i \in DOMAIN QUESTIONS}]

-----------------------------------------------------------------------------
(* SpecInspire: one call of getInspiration(question)                        *)

InitInspire ==
    /\ fn = "getInspiration"
    /\ pc = "idle"
    /\ input \in InspireInputs
    /\ env \in Envs
    /\ remote = NoRemote
    /\ outcome = Pending
    /\ client = NoClient
    /\ ui = NoUI

\* the call up to its await: getClient() is inside the try block, so a missing
\* API key is caught and answered with the error placeholder
InspireCall ==
    /\ fn = "getInspiration"
    /\ pc = "idle"
    /\ LET got == getClient(env, client)
       IN  IF got.threw
           THEN /\ outcome' = Resolved(ErrorHint)
                /\ pc' = "done"
                /\ remote' = [kind |-> "nokey"]
                /\ UNCHANGED client
           ELSE /\ pc' = "await"
                /\ client' = got.client
                /\ UNCHANGED <<remote, outcome>>
    /\ UNCHANGED <<fn, input, env, ui>>

\* chat.completions.create rejects: the catch block returns the placeholder
InspireRemoteReject ==
    /\ fn = "getInspiration"
    /\ pc = "await"
    /\ remote' = [kind |-> "error"]
    /\ outcome' = Resolved(ErrorHint)
    /\ pc' = "done"
    /\ UNCHANGED <<fn, input, env, client, ui>>

\* chat.completions.create resolves
InspireRemoteRespond ==
    /\ fn = "getInspiration"
    /\ pc = "await"
    /\ \E response \in InspireResponses :
          /\ remote' = [kind |-> "ok", response |-> response]
          /\ outcome' = Resolved(hintOf(response))
    /\ pc' = "done"
    /\ UNCHANGED <<fn, input, env, client, ui>>

NextInspire == InspireCall \/ InspireRemoteReject \/ InspireRemoteRespond

SpecInspire == InitInspire /\ [][NextInspire]_vars

InspireDone == fn = "getInspiration" /\ pc = "done"

\* C15: getInspiration never fails to its caller: whatever the remote outcome, it
\* resolves with a non-empty string without any of the quote characters, and
\* when the request could not be made or was rejected that string is the static
\* error placeholder.
C15_AlwaysAHint ==
    InspireDone =>
        /\ outcome.kind = "resolved"
        /\ outcome.value # << >>
        /\ \A i \in DOMAIN outcome.value : outcome.value[i] \notin QuoteChars
        /\ remote.kind \in {"nokey", "error"} => outcome.value = ErrorHint

\* a response made only of quote characters was answered with the placeholder
\* for empty text
C15_Witness ==
    /\ InspireDone
    /\ remote.kind = "ok"
    /\ remote.response.choices = <<CStr(TxtQuotes)>>
    /\ outcome = Resolved(EmptyHint)

-----------------------------------------------------------------------------
(* SpecService: one call of extractAnswersFromData or of generateYearSummary *)

InitService == InitExtract \/ InitSummary

NextService ==
    \/ ExtractCall
    \/ ExtractRemoteReject
    \/ ExtractRemoteRespond
    \/ SummaryCall
    \/ SummaryRemoteReject
    \/ SummaryRemoteRespond

SpecService == InitService /\ [][NextService]_vars

\* a call that needed the client found no API key
NoKeyCall == pc = "done" /\ remote.kind = "nokey"

-----------------------------------------------------------------------------
(* App and QuestionFlow: React state, pending timers and pending remote calls *)

\* const [summary, setSummary] = useState<YearSummary | null>(null): the summary
\* held is named by the AnswerStore it was generated from
NoSummary == [held |-> FALSE]
SummaryFor(answers) == [held |-> TRUE, from |-> answers]

\* const currentQuestion = QUESTIONS[currentIndex]
currentQuestion(index) == QUESTIONS[index + 1]

\* answers[currentQuestion.id] || ''
storedInput(answers, index) ==
    LET id == currentQuestion(index).id
    IN  IF id \in DOMAIN answers THEN answers[id] ELSE << >>

\* the page as first rendered: App's useState initial values, no QuestionFlow
\* mounted (its fields hold their useState initial values), nothing pending
WelcomePage ==
    [appState |-> "WELCOME", answers |-> EmptyAnswers, summary |-> NoSummary,
     isProcessingFile |-> FALSE,
     currentIndex |-> 0, currentInput |-> << >>, isSparking |-> FALSE, hint |-> << >>,
     animating |-> FALSE, showPartTransition |-> FALSE,
     timers |-> << >>, calls |-> << >>, alerts |-> 0, clicks |-> 0]

\* closures of an unmounted QuestionFlow: their setState calls do nothing
Stale(closures) == [i \in DOMAIN closures |-> [closures[i] EXCEPT !.live = FALSE]]

\* QuestionFlow is unmounted: its state is dropped
Unmounted(u) ==
    [u EXCEPT !.currentIndex = 0, !.currentInput = << >>, !.isSparking = FALSE,
              !.hint = << >>, !.animating = FALSE, !.showPartTransition = FALSE,
              !.timers = Stale(@), !.calls = Stale(@)]

\* setAppState(s) and the render that follows: App.tsx:84-115 mounts QuestionFlow
\* only in the QUESTIONS state; on mount the effect of QuestionFlow.tsx:60-67
\* loads the stored answer of the first question
setAppState(u, s) ==
    IF u.appState = "CRASHED" THEN u
    ELSE IF u.appState = "QUESTIONS" /\ s # "QUESTIONS"
    THEN [Unmounted(u) EXCEPT !.appState = s]
    ELSE IF u.appState # "QUESTIONS" /\ s = "QUESTIONS"
    THEN [u EXCEPT !.appState = s, !.currentInput = storedInput(u.answers, 0)]
    ELSE [u EXCEPT !.appState = s]

\* the render of QuestionFlow after a handler changed `old` into `new`, and its
\* effects: QUESTIONS[currentIndex] outside the catalogue makes the render
\* throw (currentQuestion.part) and React drops the tree (the index that made
\* it throw is kept for the record); entering a new part
\* shows the interstitial (32-40); a change of index, of the answers object or
\* of the interstitial reloads the input and clears the hint (60-67)
Rendered(old, new, answersSet) ==
    IF new.appState # "QUESTIONS" THEN new
    ELSE IF new.currentIndex \notin 0..(Len(QUESTIONS) - 1)
    THEN [Unmounted(new) EXCEPT !.appState = "CRASHED", !.currentIndex = new.currentIndex]
    ELSE LET moved == new.currentIndex # old.currentIndex
             entered == /\ moved
                        /\ new.currentIndex > 0
                        /\ QUESTIONS[new.currentIndex].part # currentQuestion(new.currentIndex).part
             shown == new.showPartTransition \/ entered
         IN  IF moved \/ answersSet \/ shown # old.showPartTransition
             THEN [new EXCEPT !.showPartTransition = shown,
                              !.currentInput = storedInput(new.answers, new.currentIndex),
                              !.hint = << >>]
             ELSE new

\* a pending setTimeout callback of handleNext or handlePrev with what its
\* closure captured: the index, the input text and the answers of finishReview
Timer(kind, u) ==
    [kind |-> kind, index |-> u.currentIndex, input |-> u.currentInput,
     answers |-> u.answers, live |-> TRUE]

NoFile == [base64Data |-> B64Invalid, mimeType |-> << >>]

\* an outstanding chat.completions.create request with what its continuation
\* captured
SummaryRequest(from, answers) ==
    [kind |-> "summary", from |-> from, answers |-> answers, q |-> 0, file |-> NoFile,
     live |-> TRUE]
InspirationRequest(index) ==
    [kind |-> "inspiration", from |-> "spark", answers |-> EmptyAnswers, q |-> index,
     file |-> NoFile, live |-> TRUE]
ExtractionRequest(file) ==
    [kind |-> "extraction", from |-> "upload", answers |-> EmptyAnswers, q |-> 0,
     file |-> file, live |-> TRUE]

Without(s, i) == [k \in 1..(Len(s) - 1) |-> IF k < i THEN s[k] ELSE s[k + 1]]

\* setSummary(result); setAppState(AppState.SUMMARY)
showSummary(u, result) ==
    IF u.appState = "CRASHED" THEN u
    ELSE setAppState([u EXCEPT !.summary = result], "SUMMARY")

\* generateYearSummary(answers, QUESTIONS) called by `from`, up to its await;
\* without an API key it resolves with its fallback before any other event
summaryCalled(u, e, c, from, answers) ==
    LET got == getClient(e, c)
        analyzing == setAppState(u, "ANALYZING")
    IN  IF got.threw
        THEN [ui |-> showSummary(analyzing, SummaryFor(answers)), client |-> c]
        ELSE [ui |-> [analyzing EXCEPT !.calls = Append(@, SummaryRequest(from, answers))],
              client |-> got.client]

\* const finishReview = async () => ...  with the answers of its closure
finishReview(u, e, c, answers) == summaryCalled(u, e, c, "finish", answers)

\* a handler without the test of Object.keys(extractedAnswers).length
afterExtraction_NoEmptyTest(u, e, c, extracted) ==
    IF extracted.kind = "resolved"
    THEN LET stored == IF u.appState = "CRASHED" THEN u
                       ELSE [u EXCEPT !.answers = extracted.value]
             called == summaryCalled(Rendered(u, stored, TRUE), e, c, "upload", extracted.value)
         IN  IF getClient(e, c).threw
             THEN [called EXCEPT !.ui.isProcessingFile = FALSE]
             ELSE called
    ELSE [ui |-> [setAppState(u, "WELCOME") EXCEPT !.isProcessingFile = FALSE,
                                                  !.alerts = @ + 1],
          client |-> c]

\* handleFileUpload after extractAnswersFromData has settled
afterExtraction(u, e, c, extracted) ==
    IF extracted.kind = "resolved" /\ KeyCount(extracted.value) # 0
    THEN LET stored == IF u.appState = "CRASHED" THEN u
                       ELSE [u EXCEPT !.answers = extracted.value]
             called == summaryCalled(Rendered(u, stored, TRUE), e, c, "upload", extracted.value)
         IN  IF getClient(e, c).threw
             THEN [called EXCEPT !.ui.isProcessingFile = FALSE]
             ELSE called
    ELSE [ui |-> [setAppState(u, "WELCOME") EXCEPT !.isProcessingFile = FALSE,
                                                  !.alerts = @ + 1],
          client |-> c]

-----------------------------------------------------------------------------
(* SpecUI: the page under user actions, timers and remote responses        *)

MaxClicks == 4
StartIndices == {0, 8, 9, 38, 39}
TypedTexts == {TxtHello, TxtSpaces}
UploadFiles ==
    {[base64Data |-> B64(TxtNumbered), mimeType |-> << >>],
     [base64Data |-> B64(TxtBlank), mimeType |-> MimeTextPlain],
     [base64Data |-> B64(TxtHello), mimeType |-> MimePdf],
     [base64Data |-> B64Invalid, mimeType |-> MimeImagePng]}
UploadContents == {CNull, CStr(Doc(1)), CStr(Doc(3))}

\* BASE_URL configured as the full endpoint ".../v4/chat/completions"
EndpointEnv == [apiKey |-> KeyK1, baseURL |-> DefaultBaseURL \o Tail(ChatCompletions)]

\* the page is at WELCOME, or at a question reached by pressing Next on blank
\* inputs, with nothing pending; `input` and `outcome` are the arguments and
\* the promise of the latest extractAnswersFromData call of handleFileUpload
InitUI ==
    /\ fn = "App"
    /\ pc = "idle"
    /\ input = NoFile
    /\ remote = NoRemote
    /\ outcome = Pending
    /\ env \in Envs \cup {EndpointEnv}
    /\ client = NoClient
    /\ ui \in {WelcomePage}
            \cup {[WelcomePage EXCEPT !.appState = "QUESTIONS", !.currentIndex = i] :
                    i \in StartIndices}

Clickable == ui.appState = "QUESTIONS" /\ ~ui.showPartTransition /\ ui.clicks < MaxClicks

\* const startReview = () => setAppState(AppState.QUESTIONS)
StartReview ==
    /\ ui.appState = "WELCOME"
    /\ ~ui.isProcessingFile
    /\ ui.clicks < MaxClicks
    /\ ui' = setAppState([ui EXCEPT !.clicks = @ + 1], "QUESTIONS")
    /\ UNCHANGED <<fn, pc, input, remote, outcome, env, client>>

\* handleFileUpload(file) up to the remote call of extractAnswersFromData
Upload ==
    /\ ui.appState = "WELCOME"
    /\ ~ui.isProcessingFile
    /\ ui.clicks < MaxClicks
    /\ \E file \in UploadFiles :
          LET in == [file EXCEPT !.mimeType = IF @ = << >> THEN MimeTextPlain ELSE @]
              u == [ui EXCEPT !.clicks = @ + 1, !.isProcessingFile = TRUE]
              got == getClient(env, client)
              settled(extracted) == afterExtraction(u, env, client, extracted)
          IN  /\ input' = in
              /\ IF takesTextPath(in)
                 THEN /\ outcome' = extractLocal(textPayloadOf(in))
                      /\ ui' = settled(extractLocal(textPayloadOf(in))).ui
                      /\ client' = settled(extractLocal(textPayloadOf(in))).client
                 ELSE IF got.threw
                 THEN /\ outcome' = extractCatch(textPayloadOf(in), "Missing OpenAI API key")
                      /\ ui' = settled(extractCatch(textPayloadOf(in),
                                                    "Missing OpenAI API key")).ui
                      /\ client' = client
                 ELSE /\ outcome' = Pending
                      /\ ui' = [u EXCEPT !.calls = Append(@, ExtractionRequest(in))]
                      /\ client' = got.client
    /\ UNCHANGED <<fn, pc, remote, env>>

\* onChange={(e) => setCurrentInput(e.target.value)}
TypeText ==
    /\ Clickable
    /\ \E text \in TypedTexts :
          /\ text # ui.currentInput
          /\ ui' = [ui EXCEPT !.currentInput = text, !.clicks = @ + 1]
    /\ UNCHANGED <<fn, pc, input, remote, outcome, env, client>>

\* const handleNext = () => ...  up to setTimeout
ClickNext ==
    /\ Clickable
    /\ ui' = [ui EXCEPT !.animating = TRUE, !.timers = Append(@, Timer("next", ui)),
                        !.clicks = @ + 1]
    /\ UNCHANGED <<fn, pc, input, remote, outcome, env, client>>

\* const handlePrev = () => ...  up to setTimeout (the button is disabled on
\* the first question)
ClickPrev ==
    /\ Clickable
    /\ ui.currentIndex > 0
    /\ ui' = [ui EXCEPT !.animating = TRUE, !.timers = Append(@, Timer("prev", ui)),
                        !.clicks = @ + 1]
    /\ UNCHANGED <<fn, pc, input, remote, outcome, env, client>>

\* const handleSkip = () => ...  (the callback of the handleNext it calls is
\* recorded as "skip"; it runs as any other callback of handleNext)
ClickSkip ==
    /\ Clickable
    /\ LET skipped == [ui EXCEPT !.answers = Put(@, currentQuestion(ui.currentIndex).id, << >>),
                                 !.clicks = @ + 1]
           fin == finishReview(skipped, env, client, ui.answers)
       IN  IF ui.currentIndex < Len(QUESTIONS) - 1
           THEN /\ ui' = Rendered(ui, [skipped EXCEPT !.animating = TRUE,
                                                      !.timers = Append(@, Timer("skip", ui))],
                                  TRUE)
                /\ client' = client
           ELSE /\ ui' = fin.ui
                /\ client' = fin.client
    /\ UNCHANGED <<fn, pc, input, remote, outcome, env>>

\* const handleSpark = async () => ...  up to the remote call of getInspiration;
\* without an API key getInspiration resolves with its placeholder before any
\* other event
ClickSpark ==
    /\ Clickable
    /\ ~ui.isSparking
    /\ ui.hint = << >>
    /\ LET got == getClient(env, client)
       IN  IF got.threw
           THEN /\ ui' = [ui EXCEPT !.hint = <<ui.currentIndex>>, !.clicks = @ + 1]
                /\ client' = client
           ELSE /\ ui' = [ui EXCEPT !.isSparking = TRUE, !.clicks = @ + 1,
                                    !.calls = Append(@, InspirationRequest(ui.currentIndex))]
                /\ client' = got.client
    /\ UNCHANGED <<fn, pc, input, remote, outcome, env>>

\* const retake = () => ...  (the board is rendered only with a summary)
Retake ==
    /\ ui.appState = "SUMMARY"
    /\ ui.summary.held
    /\ ui.clicks < MaxClicks
    /\ ui' = setAppState([ui EXCEPT !.answers = EmptyAnswers, !.summary = NoSummary,
                                    !.clicks = @ + 1], "WELCOME")
    /\ UNCHANGED <<fn, pc, input, remote, outcome, env, client>>

\* the oldest pending 300 ms callback of handleNext or handlePrev runs
FlowTimer ==
    /\ ui.timers # << >>
    /\ LET t == Head(ui.timers)
           popped == [ui EXCEPT !.timers = Tail(@)]
           written == ~Blank(t.input) /\ ui.appState # "CRASHED"
           saved == IF written
                    THEN [popped EXCEPT !.answers = Put(@, currentQuestion(t.index).id, t.input)]
                    ELSE popped
           fin == finishReview(saved, env, client, t.answers)
       IN  IF t.kind = "prev"
           THEN /\ ui' = IF t.live
                         THEN Rendered(ui, [popped EXCEPT !.currentIndex = @ - 1,
                                                          !.animating = FALSE], FALSE)
                         ELSE popped
                /\ client' = client
           ELSE IF t.index < Len(QUESTIONS) - 1
           THEN /\ ui' = Rendered(ui, IF t.live
                                      THEN [saved EXCEPT !.currentIndex = @ + 1,
                                                         !.animating = FALSE]
                                      ELSE saved, written)
                /\ client' = client
           ELSE /\ ui' = fin.ui
                /\ client' = fin.client
    /\ UNCHANGED <<fn, pc, input, remote, outcome, env>>

\* setTimeout(() => setShowPartTransition(false), 2500) runs
HidePart ==
    /\ ui.appState = "QUESTIONS"
    /\ ui.showPartTransition
    /\ ui' = Rendered(ui, [ui EXCEPT !.showPartTransition = FALSE], FALSE)
    /\ UNCHANGED <<fn, pc, input, remote, outcome, env, client>>

\* getInspiration settles (it never rejects): setHint(suggestion);
\* setIsSparking(false)
InspirationSettles ==
    /\ \E i \in DOMAIN ui.calls :
          LET call == ui.calls[i]
              gone == [ui EXCEPT !.calls = Without(@, i)]
          IN  /\ call.kind = "inspiration"
              /\ ui' = IF call.live
                       THEN [gone EXCEPT !.hint = <<call.q>>, !.isSparking = FALSE]
                       ELSE gone
    /\ UNCHANGED <<fn, pc, input, remote, outcome, env, client>>

\* generateYearSummary settles (it never rejects) with a summary, or with null
\* when the response text is the JSON null: setSummary(result);
\* setAppState(AppState.SUMMARY), and for an upload setIsProcessingFile(false)
SummarySettles ==
    /\ \E i \in DOMAIN ui.calls : \E result \in {SummaryFor(ui.calls[i].answers), NoSummary} :
          LET call == ui.calls[i]
              shown == showSummary([ui EXCEPT !.calls = Without(@, i)], result)
          IN  /\ call.kind = "summary"
              /\ ui' = IF call.from = "upload" /\ ui.appState # "CRASHED"
                       THEN [shown EXCEPT !.isProcessingFile = FALSE]
                       ELSE shown
    /\ UNCHANGED <<fn, pc, input, remote, outcome, env, client>>

\* the remote call of extractAnswersFromData rejects or resolves, and
\* handleFileUpload continues
ExtractionSettles ==
    /\ \E i \in DOMAIN ui.calls :
          LET call == ui.calls[i]
              gone == [ui EXCEPT !.calls = Without(@, i)]
              text == textPayloadOf(call.file)
          IN  /\ call.kind = "extraction"
              /\ \E extracted \in {extractCatch(text, "transport")}
                        \cup {extractOnResponse(text, content) : content \in UploadContents} :
                    /\ outcome' = extracted
                    /\ ui' = afterExtraction(gone, env, client, extracted).ui
                    /\ client' = afterExtraction(gone, env, client, extracted).client
    /\ UNCHANGED <<fn, pc, input, remote, env>>

NextUI ==
    \/ StartReview
    \/ Upload
    \/ TypeText
    \/ ClickNext
    \/ ClickPrev
    \/ ClickSkip
    \/ ClickSpark
    \/ Retake
    \/ FlowTimer
    \/ HidePart
    \/ InspirationSettles
    \/ SummarySettles
    \/ ExtractionSettles

SpecUI == InitUI /\ [][NextUI]_vars

\* C17: at any moment at most one remote call issued by the page is outstanding.
C17_OneOutstandingCall == Len(ui.calls) <= 1

-----------------------------------------------------------------------------
(* SpecCategorize: the categorisation loop of generateYearSummary           *)

\* "User's Year in Review:\n", "[Category: ", "] Q: ", "\nA: ", "\n\n"
TranscriptText ==
    [L287 |-> <<85, 115, 101, 114, 39, 115, 32, 89, 101, 97, 114, 32, 105, 110, 32, 82, 101,
                118, 105, 101, 119, 58, 10>>,
     L299 |-> <<<<91, 67, 97, 116, 101, 103, 111, 114, 121, 58, 32>>, <<93, 32, 81, 58, 32>>,
                <<10, 65, 58, 32>>, <<10, 10>>>>]

\* transcript += `[Category: ${q.category}] Q: ${q.text}\nA: ${answer}\n\n`
RECURSIVE transcriptFrom(_, _, _)
transcriptFrom(answers, questions, i) ==
    IF i > Len(questions) THEN << >>
    ELSE LET q == questions[i]
             T == TranscriptText.L299
         IN  T[1] \o q.category \o T[2] \o q.text \o T[3] \o answerOrSkipped(answers, q)
                  \o T[4] \o transcriptFrom(answers, questions, i + 1)

\* transcript after questions.forEach(...)
transcriptOf(answers, questions) == TranscriptText.L287 \o transcriptFrom(answers, questions, 1)

\* "愿望", "成长", "承诺", "q"
CatWish == <<24895, 26395>>
CatGrowth == <<25104, 38271>>
CatPromise == <<25215, 35834>>
TxtQ == <<113>>

\* questions outside the catalogue: an id rule against a category rule, two
\* category-free ids, and no rule at all
OtherQuestions ==
    {[id |-> 5, part |-> 1, category |-> CatWish, text |-> TxtQ],
     [id |-> 1, part |-> 1, category |-> CatGrowth, text |-> TxtQ],
     [id |-> 6, part |-> 1, category |-> CategorizeText.L302[1], text |-> TxtQ],
     [id |-> 41, part |-> 5, category |-> CatGrowth, text |-> TxtQ],
     [id |-> 41, part |-> 5, category |-> CatPromise, text |-> TxtQ]}

CategorizeAnswers == {EmptyAnswers, [id \in 1..41 |-> TxtHello], 5 :> TxtTokyo}

CategorizeInputs ==
    [answers : CategorizeAnswers,
     questions : {QUESTIONS} \cup {<<q>> : q \in OtherQuestions}
                    \cup {<<QUESTIONS[i]>> : i \in DOMAIN QUESTIONS}]

InitCategorize ==
    /\ fn = "generateYearSummary"
    /\ pc = "start"
    /\ input \in CategorizeInputs
    /\ env \in Envs
    /\ remote = NoRemote
    /\ outcome = Pending
    /\ client = NoClient
    /\ ui = NoUI

\* questions.forEach(q => ...): the transcript and the four buckets
Categorize ==
    /\ fn = "generateYearSummary"
    /\ pc = "start"
    /\ pc' = "categorized"
    /\ outcome' = Resolved([transcript |-> transcriptOf(input.answers, input.questions),
                            categorizedAnswers |->
                                categorizedAnswers(input.answers, input.questions)])
    /\ UNCHANGED <<fn, input, remote, env, client, ui>>

NextCategorize == Categorize

SpecCategorize == InitCategorize /\ [][NextCategorize]_vars

Categorized == fn = "generateYearSummary" /\ pc = "categorized"

\* question q has an entry in bucket b of the categorised answers
InBucket(q, b) ==
    \E i \in DOMAIN outcome.value.categorizedAnswers[b] :
        outcome.value.categorizedAnswers[b][i].question = q.text

\* the transcript entry of question q
EntryOf(q) ==
    LET answer == IF q.id \in DOMAIN input.answers /\ input.answers[q.id] # << >>
                  THEN input.answers[q.id]
                  ELSE <<83, 107, 105, 112, 112, 101, 100>>
    IN  <<91, 67, 97, 116, 101, 103, 111, 114, 121, 58, 32>> \o q.category
            \o <<93, 32, 81, 58, 32>> \o q.text \o <<10, 65, 58, 32>> \o answer \o <<10, 10>>

\* the buckets that hold question q when it is categorised alone, with other
\* answers and another question text
BucketsAlone(q, answers, text) ==
    LET again == categorizedAnswers(answers, <<[q EXCEPT !.text = text, !.part = 1]>>)
    IN  {b \in DOMAIN again : again[b] # << >>}

\* C18: every question is in at most one of the four buckets; the bucket depends
\* only on the question's id and category text (other answers or another
\* question text give the same bucket); question id 5 is in journey; and every
\* question, in a bucket or not, has its entry in the transcript.
C18_OneBucketByIdAndCategory ==
    Categorized =>
        \A k \in DOMAIN input.questions :
            LET q == input.questions[k]
                buckets == {b \in DOMAIN outcome.value.categorizedAnswers : InBucket(q, b)}
            IN  /\ Cardinality(buckets) <= 1
                /\ q.id = 5 => buckets = {"journey"}
                /\ \A answers \in CategorizeAnswers : \A text \in {q.text, TxtTokyo} :
                        BucketsAlone(q, answers, text) = buckets
                /\ Includes(outcome.value.transcript, EntryOf(q))

\* the whole catalogue was categorised: question 2 is in no bucket and its
\* answer is in the transcript, question 5 is in journey
C18_Witness ==
    /\ Categorized
    /\ input.questions = QUESTIONS
    /\ 2 \in DOMAIN input.answers
    /\ \A b \in DOMAIN outcome.value.categorizedAnswers : ~InBucket(QUESTIONS[2], b)
    /\ Includes(outcome.value.transcript, EntryOf(QUESTIONS[2]))
    /\ InBucket(QUESTIONS[5], "journey")

-----------------------------------------------------------------------------
(* Claims about the unique-detail list *)

\* the stored answer of question id counts: it is not blank and not "Skipped"
Answered(answers, id) ==
    /\ id \in DOMAIN answers
    /\ ~Blank(answers[id])
    /\ answers[id] # CategorizeText.L298[1]

\* C19: the unique-detail list of a call holds no token twice, and holds every
\* token of every answer that is neither blank nor skipped, whether or not the
\* question is in a bucket.
C19_UniqueAndCovering ==
    (fn = "generateYearSummary" /\ pc # "idle") =>
        /\ \A i, j \in DOMAIN UniqueDetails : UniqueDetails[i] = UniqueDetails[j] => i = j
        /\ \A k \in DOMAIN QUESTIONS :
              Answered(input.answers, QUESTIONS[k].id) =>
                  LET tokens == DetailsFrom(input.answers[QUESTIONS[k].id], 0)
                  IN  \A n \in DOMAIN tokens :
                        \E i \in DOMAIN UniqueDetails : UniqueDetails[i] = tokens[n]

-----------------------------------------------------------------------------
(* Claims about fenced responses *)

\* JSON texts a response can hold, with and without back-ticks inside
FencedPayloads == {Doc(10), TxtFenceInside}

\* ```json, a line break, the payload, a line break, ```
Wrapped(payload) == FenceJson \o <<NL>> \o payload \o <<NL>> \o Fence

\* C20: a response that is a JSON text wrapped in ```json ... ``` gives the value
\* of that JSON text: stripping the fences changes nothing inside the payload.
C20_FenceStrippingOnly ==
    (SummaryDone /\ remote.kind = "ok") =>
        \A payload \in FencedPayloads :
            remote.content = CStr(Wrapped(payload)) =>
                outcome = Resolved(JSONparse(payload).value)

-----------------------------------------------------------------------------
(* Claims about the page *)

\* the summary requests among the outstanding calls
SummaryCalls(u) == {i \in DOMAIN u.calls : u.calls[i].kind = "summary"}

\* extractAnswersFromData has failed or returned no answer
NothingExtracted(p) == p.kind = "rejected" \/ (p.kind = "resolved" /\ KeyCount(p.value) = 0)

\* C21: in the step of an upload in which extraction fails or returns no answer,
\* the alert is shown and the page is left in WELCOME with the processing flag
\* cleared; no summary request is issued and no summary or answer is stored.
C21_FailedUploadReturnsToWelcome ==
    [][((Upload \/ ExtractionSettles) /\ NothingExtracted(outcome'))
          => /\ ui'.appState = "WELCOME"
             /\ ~ui'.isProcessingFile
             /\ ui'.alerts = ui.alerts + 1
             /\ Cardinality(SummaryCalls(ui')) = Cardinality(SummaryCalls(ui))
             /\ ui'.summary = ui.summary
             /\ ui'.answers = ui.answers]_vars

\* an upload whose remote extraction was rejected ended at WELCOME after the alert
C21_Witness ==
    /\ fn = "App"
    /\ outcome.kind = "rejected"
    /\ input.mimeType = MimeImagePng
    /\ ui.appState = "WELCOME"
    /\ ~ui.isProcessingFile
    /\ ui.alerts = 1
    /\ ui.calls = << >>


\* C22: whenever the page is at WELCOME with no file being processed, the
\* AnswerStore is empty and no summary is held.
C22_WelcomeIsCleared ==
    (ui.appState = "WELCOME" /\ ~ui.isProcessingFile) =>
        /\ ui.answers = EmptyAnswers
        /\ ~ui.summary.held


\* C23: over any sequence of calls of the page, at most one client handle is
\* constructed; once there is a handle every later call reuses it, and the
\* cache changes only from "no handle" to the handle for the configured key and
\* the sanitised base URL.
C23_ClientBuiltOnce ==
    [][/\ client'.made <= 1
       /\ client.ai # 0 => client' = client
       /\ client' # client =>
             /\ client.ai = 0
             /\ client'.ai = 1
             /\ client'.cachedApiKey = env.apiKey
             /\ client'.cachedBaseURL = sanitizeBaseURL(env.baseURL)]_vars

\* two requests have been issued through the one handle, with BASE_URL
\* configured as the full endpoint
C23_Witness ==
    /\ fn = "App"
    /\ env = EndpointEnv
    /\ Len(ui.calls) >= 2
    /\ client.ai = 1
    /\ client.made = 1


\* the oldest pending callback is the one of Next/Finish pressed on the last
\* question with a non-blank input
FinishingTimer ==
    /\ ui.appState # "CRASHED"
    /\ ui.timers # << >>
    /\ Head(ui.timers).kind = "next"
    /\ Head(ui.timers).index = Len(QUESTIONS) - 1
    /\ ~Blank(Head(ui.timers).input)

\* the AnswerStore handed to generateYearSummary by the finishReview that has
\* just run: the one of the request issued last, or without an API key the one
\* the fallback summary was built from
PassedAnswers ==
    IF env.apiKey = << >> THEN ui.summary.from ELSE ui.calls[Len(ui.calls)].answers

\* C24: when the callback of Next/Finish on the last question runs with a
\* non-blank input, the AnswerStore passed to generateYearSummary holds that
\* input as the answer of the last question.
C24_SummaryFromFinalAnswers ==
    [][(FlowTimer /\ FinishingTimer)
          => LET last == currentQuestion(Len(QUESTIONS) - 1).id
             IN  /\ last \in DOMAIN PassedAnswers'
                 /\ PassedAnswers'[last] = Head(ui.timers).input]_vars


\* C25: the current question index designates a question of the catalogue,
\* whatever Next, Prev and Skip clicks were issued and whenever their delayed
\* updates run.
C25_IndexInCatalogue == ui.currentIndex \in 0..(Len(QUESTIONS) - 1)


\* C26: whenever the app is in the SUMMARY state a summary is held, whatever
\* generateYearSummary settled with.
C26_SummaryStateHoldsSummary == ui.appState = "SUMMARY" => ui.summary.held


\* the oldest pending callback is the one of a Skip
SkipTimer ==
    /\ ui.appState # "CRASHED"
    /\ ui.timers # << >>
    /\ Head(ui.timers).kind = "skip"

\* C27: when the delayed transition of a Skip has run, the stored answer of
\* the skipped question is the empty string.
C27_SkipStoresEmpty ==
    [][(FlowTimer /\ SkipTimer)
          => LET id == currentQuestion(Head(ui.timers).index).id
             IN  /\ id \in DOMAIN ui'.answers
                 /\ ui'.answers[id] = << >>]_vars


\* C28: a hint that is displayed was generated for the question that is shown.
C28_HintForShownQuestion ==
    (ui.appState = "QUESTIONS" /\ ui.hint # << >>) => ui.hint[1] = ui.currentIndex


-----------------------------------------------------------------------------
(* Claims about the answers extracted from a file *)

\* C29: every key of the AnswerStore that extractAnswersFromData returns is a
\* question id of the catalogue.
C29_KeysAreQuestionIds ==
    (fn = "extractAnswersFromData" /\ outcome.kind = "resolved")
        => DOMAIN outcome.value \subseteq 1..Len(QUESTIONS)


\* the call is for a file whose type starts with "text/" and whose decoded
\* text is not empty
TextInput ==
    /\ fn = "extractAnswersFromData"
    /\ StartsWith(input.mimeType, TextPrefix)
    /\ textPayloadOf(input) # << >>

\* C30: for a text file with a non-empty decoded text the call never awaits a
\* remote response and never rejects; it returns the local parse when that has
\* an answer and the total-capture fallback otherwise, and the client cache is
\* left as it was.
C30_TextPathIsLocal ==
    TextInput =>
        /\ pc # "await"
        /\ remote = NoRemote
        /\ client = NoClient
        /\ pc = "done" =>
              LET text == textPayloadOf(input)
                  parsed == parsePlainTextAnswers(text)
              IN  outcome = Resolved(IF KeyCount(parsed) > 0 THEN parsed
                                     ELSE buildFallbackAnswers(text))

\* a text file without numbered answers has been captured whole, with an API
\* key configured
C30_Witness ==
    /\ TextInput
    /\ pc = "done"
    /\ env.apiKey = KeyK1
    /\ textPayloadOf(input) = TxtHello
    /\ outcome = Resolved(Put(EmptyAnswers, 1, TxtHello))

=============================================================================
